----------------------------- MODULE ModelCArgs -----------------------------
(***************************************************************************)
(* The arguments of a ModelC process (modelc_args.c).  A setting may be    *)
(* given on the command line, in the environment and in the stack, and has *)
(* a default.  A layer is a record of what one of these places says, with  *)
(* Unset for what it leaves out:                                           *)
(*   transport, uri, loglevel, timeout                                     *)
(* and for the stack also entries, the transports of spec/connection with  *)
(* their uri, the first of which is transport.                             *)
(***************************************************************************)
EXTENDS Integers

CONSTANT Unset       \* what a place does not set

DefaultArgs == [ transport |-> "redispubsub", uri |-> "redis",
                 loglevel |-> 4, timeout |-> 60 ]

Else(value, other) == IF value # Unset THEN value ELSE other

\* getopt_long: a timeout that is not positive is as good as none.
FromCli(cli) == [ cli EXCEPT !.timeout = IF @ # Unset /\ @ > 0 THEN @ ELSE Unset ]

\* _args_extract_yaml_environment: spec/runtime/env of the stack, which is
\* read before the environment itself.  Only the log level is looked for.
FromStackEnvironment(args, stack) ==
  [ args EXCEPT !.loglevel = Else(@, stack.loglevel) ]

\* Mutant: the log level is replaced only when the stack has none.
FromEnvironmentLast(args, cli, env) ==
  [ args EXCEPT !.transport = Else(@, env.transport),
                !.uri = Else(@, env.uri),
                !.loglevel = Else(@, env.loglevel),
                !.timeout = Else(cli.timeout, Else(env.timeout, @)) ]

\* _args_extract_environment: what the command line does not set.  The log
\* level of the environment replaces that of the stack.
FromEnvironment(args, cli, env) ==
  [ args EXCEPT !.transport = Else(@, env.transport),
                !.uri = Else(@, env.uri),
                !.loglevel = Else(cli.loglevel, Else(env.loglevel, @)),
                !.timeout = Else(cli.timeout, Else(env.timeout, @)) ]

\* _args_extract_yaml_connection.  The entry of the transport in hand gives
\* the uri; without a transport the first entry gives both.  The timeout is
\* taken whenever the command line has none, whatever the environment says.
FromConnection(args, cli, stack) ==
  LET transport == Else(args.transport, stack.transport)
  IN [ args EXCEPT !.transport = transport,
                   !.uri = IF transport \in DOMAIN stack.entries
                           THEN Else(@, stack.entries[transport]) ELSE @,
                   !.timeout = Else(cli.timeout, Else(stack.timeout, @)) ]

\* modelc_set_default_args and modelc_parse_arguments.
Resolved(cli0, env, stack) ==
  LET cli    == FromCli(cli0)
      stacked == FromStackEnvironment(cli, stack)
      args   == FromConnection(FromEnvironment(stacked, cli, env), cli, stack)
  IN [ setting \in DOMAIN DefaultArgs |->
         Else(args[setting], DefaultArgs[setting]) ]

-----------------------------------------------------------------------------
\* endpoint_create.  The schemes of uris are redis://, redisasync:// and
\* unix://, each with its own arguments of redis_connect.
EndpointKind(transport, uri) ==
  CASE transport \in {"redispubsub", "redis"} /\ uri \in {"redis", "redisasync", "unix"}
         -> "message"
    [] transport = "loopback" -> "loopback"
    [] OTHER -> "none"
=============================================================================
