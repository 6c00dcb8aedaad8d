----------------------------- MODULE MCCopilot -----------------------------
(***************************************************************************)
(* Instances of Copilot for TLC: two analyses that map one technique with  *)
(* different confidence, write of the case, and find different things;     *)
(* the case is renamed once.                                               *)
(***************************************************************************)
EXTENDS Copilot

CONSTANTS p1, p2, a1, a2, f1, f2, t1, t2, ev, u1, u2, l1, l2, y1, y2

MCFindingsOf == a1 :> {f1} @@ a2 :> {f2}
Row(confidence, rationale) == [confidence |-> confidence, rationale |-> rationale]
MCMappingsOf == a1 :> (t1 :> Row(8, y1)) @@ a2 :> (t1 :> Row(5, y2) @@ t2 :> Row(6, y1))
MCTextsOf == a1 :> {l1} @@ a2 :> {l2}
MCConfidence == f1 :> 9 @@ f2 :> 7

MCQuestions ==
    {[kind |-> "qa", target |-> ""], [kind |-> "finding", target |-> f2],
     [kind |-> "impact", target |-> "i"]}

Point(fs, ts, es) ==
    [evidence |-> es, findings |-> fs, techniques |-> ts, status |-> {"CONFIRMED"}, confidence |-> {1}]

MCReplies ==
    {[shape |-> "text", points |-> <<>>, claims |-> {"summary"}],
     [shape |-> "points", points |-> <<Point(<<f1>>, <<>>, {})>>, claims |-> {}],
     [shape |-> "points", points |-> <<Point(<<>>, <<t1>>, {}), Point(<<f1>>, <<t2, t1>>, {})>>, claims |-> {"points"}],
     [shape |-> "points", points |-> <<Point(<<>>, <<>>, {ev})>>, claims |-> {}],
     [shape |-> "observation", points |-> <<Point(<<>>, <<>>, {})>>, claims |-> {"summary"}],
     [shape |-> "raw", points |-> <<Point(<<f2, f1>>, <<>>, {})>>, claims |-> {"summary", "raw"}]}

=============================================================================
