---------------------------- MODULE MCGRPCServer ----------------------------
(* Model values for GRPCServer: three plugins, so that Init can fail after *)
(* registering some of them; two goroutines that each handle a Stop and    *)
(* then a GracefulStop request, at the same time as each other.            *)
EXTENDS GRPCServer

MCPlugins == {"kv", "grpc", "stdio"}

CallsConcurrent == [c \in {"s1", "s2"} |-> <<"Stop", "GracefulStop">>]
=============================================================================
