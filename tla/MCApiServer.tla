----------------------------- MODULE MCApiServer -----------------------------
(* Two sweeps asked for by the app's own window and one visit from a page, *)
(* whose requests differ in what the gate looks at.                        *)
EXTENDS ApiServer, TLC
CONSTANTS c1, c2, visit, a1, a2, token, wrong

Site(scheme, site) == [scheme |-> scheme, site |-> site, port |-> FALSE]
Local(name) == [name |-> name, bracketed |-> name = "::1"]
Elsewhere == Site("https", "elsewhere")

Ui(path) == [path |-> path, preflight |-> FALSE, host |-> Local("127.0.0.1"),
             origin |-> Site("tauri", "localhost"), authorization |-> token,
             x_ember_token |-> Absent]
Page(path) == [Ui(path) EXCEPT !.origin = Elsewhere, !.authorization = Absent]

MCCalls == {c1, c2, visit}
MCVisits ==
    {Ui("info"), Page("health"), Page("pair"),
     [Page("discover") EXCEPT !.preflight = TRUE],
     Page("respond"), Ui("send"), [Page("pairId") EXCEPT !.origin = Absent],
     [Page("read") EXCEPT !.authorization = wrong, !.x_ember_token = token],
     [Page("settings") EXCEPT !.x_ember_token = token],
     [Page("discover") EXCEPT !.host = Local("127.0.0.1.elsewhere"), !.authorization = token]}
MCKinds == (c1 :> {Ui("discover")}) @@ (c2 :> {Ui("discover")})
           @@ (visit :> MCVisits)
MCAllowlists == {{Elsewhere}, {Site("file", "elsewhere")}}
MCBackends == <<"brother", "emberconnect">>
=============================================================================
