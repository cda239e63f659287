----------------------------- MODULE MCConformance -----------------------------
(* Conformance with one other client, one restart and two signals, and the   *)
(* command lines that differ in what they select.                             *)
EXTENDS Conformance

CONSTANTS c1

MCClient == {Kit, c1}
MCWatched == {Kit}
MCOwnTests == <<1, 2, 3>>
MCFile   == {"bb-hash-001", "bb-hash-tomb", "bb-hash-410"}
MCCommand ==
  {<<>>, <<"--report">>,
   <<"--target", "--json">>, <<"--level", "2", "--target">>,
   <<"--target", "url">>,
   <<"--target", "url", "--level", "1">>,
   <<"--target", "url", "--level", "3", "--report">>}
MCClientRequests ==
  {Request("POST", "/v1/graphql", NoToken, TRUE, "bb-hash-001"),
   Request("OPTIONS", "/v1/files", NoToken, TRUE, NoFile),
   Request("GET", "/v1/nothing", NoToken, TRUE, NoFile)}
==============================================================================
