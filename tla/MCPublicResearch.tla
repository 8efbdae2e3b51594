-------------------------- MODULE MCPublicResearch --------------------------
(* Small instances of PublicResearch: two ids, two queries, a private word. *)
EXTENDS PublicResearch

MCEndpoints ==
    {[id |-> "offline-primary", environment |-> "OFFLINE_LOCAL", enabled |-> TRUE,
      levels |-> {"PUBLIC", "INTERNAL", "SENSITIVE", "CLASSIFIED"}],
     [id |-> "online-public-primary", environment |-> "ONLINE_PUBLIC", enabled |-> TRUE,
      levels |-> {"PUBLIC"}]}
MCProject == [level |-> "INTERNAL", internet |-> TRUE,
              endpoints |-> {"offline-primary", "online-public-primary"}]

OnePlan == [queries |-> <<"q">>, questions |-> 1, priorities |-> 1, time |-> TRUE,
            broad |-> {}, unbound |-> {}]
MCPlans == {OnePlan, [OnePlan EXCEPT !.queries = <<"q", "p">>],
            [OnePlan EXCEPT !.broad = {"q"}], [OnePlan EXCEPT !.time = FALSE]}
MCPackages == {{"w", "p"}}

Paper == [id |-> "S1", identity |-> "d1", doi |-> TRUE, title |-> "A", year |-> "1", url |-> "u1",
          fit |-> TRUE, raw |-> "r1", text |-> {"q"}, snippet |-> {}, query |-> "q",
          dims |-> {"recent_work", "comparable_baselines"}]
\* The same DOI under another title; another paper under the same id; the same text
\* under the same id; a page with a private word; a page that does not answer; a page too
\* short to be its own excerpt.
MCFound ==
    {Paper, [Paper EXCEPT !.title = "B", !.url = "u2", !.raw = "r2"],
     [Paper EXCEPT !.identity = "d3", !.url = "u3", !.raw = "r3", !.text = {"w"},
                   !.dims = {"limitation_mechanisms"}],
     [Paper EXCEPT !.identity = "d4", !.url = "u4", !.raw = "r4"],
     [Paper EXCEPT !.id = "", !.identity = "u5", !.doi = FALSE, !.url = "u5", !.raw = "r5",
                   !.text = {"p"}],
     [Paper EXCEPT !.id = "S2", !.identity = "d6", !.url = "u6", !.raw = "r6", !.text = {"w"},
                   !.dims = {"limitation_mechanisms"}],
     [Paper EXCEPT !.identity = "d7", !.url = "u7", !.fit = FALSE],
     [Paper EXCEPT !.id = "S2", !.identity = "d8", !.title = "", !.url = "u8", !.raw = "r8",
                   !.text = {"s"}, !.snippet = {"t"}]}
MCShort == {{"s"}}

Ref(source, hash, quote) == [source |-> source, hash |-> hash, public |-> TRUE, quote |-> quote]
Claim == [id |-> "C1", type |-> "PUBLIC_CLAIM", innovation |-> FALSE,
          refs |-> {Ref("S1", "r1", {"A", "q"})}]
MCClaims ==
    {Claim, [Claim EXCEPT !.innovation = TRUE], [Claim EXCEPT !.id = "C2", !.refs = {Ref("S2", "r6", {})}],
     [Claim EXCEPT !.refs = {Ref("S1", "r3", {"w"})}], [Claim EXCEPT !.id = "C2", !.refs = {}],
     [Claim EXCEPT !.id = "C2", !.refs = {Ref("S2", "r8", {"t", "u8"})}],
     [Claim EXCEPT !.id = "C2", !.refs = {Ref("S2", "r8", {"s"})}]}
=============================================================================
