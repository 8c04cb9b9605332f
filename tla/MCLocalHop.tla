----------------------------- MODULE MCLocalHop -----------------------------
(* Commands and backends for the LocalHop run.                              *)
EXTENDS LocalHop

Origins == [api |-> "api", api_with_path |-> "api", operator |-> "operator",
            lookalike |-> "api.elsewhere", ftp |-> "none"]
File == [parses |-> TRUE, allowedBackends |-> {"operator", "ftp"}]

Command(nonce, url, version) ==
    Object([nonce |-> nonce, backendUrl |-> Ascii(url, 27),
            protocolVersion |-> Number(version),
            serverName |-> Text("plain", 90, 128)])
Good == Command(Ascii("hex", 64), "api_with_path", 1)

Asks == <<{Good, Command(Ascii("hex", 64), "lookalike", 1)},
          {Command(Ascii("HEX", 64), "operator", 1),
           Command(Ascii("hex", 64), "api_with_path", 2)}>>

(* Other programs: one command whose server name is null, one by position,   *)
(* and one refused, as whatever is no command would be.                      *)
NullName == Object([nonce |-> Ascii("hex", 64), backendUrl |-> Ascii("operator", 27),
                    protocolVersion |-> Number(1), serverName |-> Null])
Positional == List(<<Ascii("hex", 64), Ascii("operator", 27), Null, Number(1)>>)
Others == {NullName, Positional, Command(Ascii("hex", 64), "api", 2)}
=============================================================================
