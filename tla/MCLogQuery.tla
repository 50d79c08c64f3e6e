----------------------------- MODULE MCLogQuery -----------------------------
(***************************************************************************)
(* LogQuery for TLC: entries with statuses on both sides of the borders of *)
(* a range and without one, and words of every shape.                      *)
(***************************************************************************)
EXTENDS LogQuery

Num(n) == [num |-> n]
Text(t) == [text |-> t]

MCLogged ==
    {[status |-> Num(499), level |-> Text("error"), msg |-> Text("timeout")],
     [status |-> Num(500), level |-> Text("errors")],
     [status |-> Num(599), level |-> Text("error")],
     [status |-> Num(600)],
     [stream |-> Text("kubectl"), msg |-> Text("timeout 5xx"), raw |-> Text("timeout 5xx")]}

MCWithin(v, t) ==
    IF "num" \in DOMAIN v THEN v.num = 500 /\ t = "500"
    ELSE v.text = t \/ <<v.text, t>> \in {<<"errors", "error">>, <<"timeout 5xx", "timeout">>}

Of(field, shape, op, num, text) ==
    [field |-> field, shape |-> shape, op |-> op, num |-> num, text |-> text]

MCWords ==
    {Of("status", "range", "", 5, "5xx"),
     Of("status", "range", "", 9, "9xx"),
     Of("status", "number", "", 500, "500"),
     Of("level", "text", "", 0, "error"),
     Of("", "search", "", 0, "timeout")}
=============================================================================
