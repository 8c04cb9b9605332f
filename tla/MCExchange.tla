----------------------------- MODULE MCExchange -----------------------------
(* Values at the limits of the protocol for the Exchange runs.             *)
EXTENDS Exchange

FormLength == [f \in Forms |->
    IF f \in {"hex", "HEX"} THEN 64 ELSE IF f = "uuid" THEN 36
    ELSE IF f \in {"utc", "offset", "local", "no_day"} THEN 24
    ELSE IF f = "no_seconds" THEN 17 ELSE 9]

(* Every form at its natural length; plain text at, above and, with one      *)
(* character of two bytes, across every length limit; hex around 64 and 128. *)
Texts ==
    {Ascii(f, FormLength[f]) : f \in Forms}
    \cup UNION {{Ascii("plain", n), Ascii("plain", n + 1), Text("plain", n, n + 1)} :
                   n \in {32, 45, 64, 128, 200, 256, 500}}
    \cup {Ascii("hex", n) : n \in {0, 63, 65, 128, 129}}
    \cup {Ascii("base64", n) : n \in {2048, 2049, 8192, 8193}}
    \cup {Ascii("unknown", 7), Ascii("ip", 46)}

Values ==
    Texts \cup {Number(n) : n \in {-1, 0, 1, 4, 5, 10, 11, 23, 24, 30, 31, 3600, 3601}}
    \cup {Float(n) : n \in {0, 7, 120, 3601}} \cup {Fraction}
    \cup {Bool(TRUE), Bool(FALSE), Null, List(<<>>), Object(None)}
    \cup {Object([k \in {w} |-> Null]) : w \in {"enabled", "deny", "banned", "none"}}

Names == {Ascii("plain", 12), Ascii("plain", 128), Ascii("plain", 129),
          Text("plain", 128, 129), Text("plain", 60, 70)}
=============================================================================
