--------------------------- MODULE ReportArchive ---------------------------
(***************************************************************************)
(* What the report API promises: a report is put on file as a draft,       *)
(* becomes final once and stays as it is from then on, and nothing but a   *)
(* final report is released to anyone who asks for an export.              *)
(* Reports implements this specification.                                 *)
(***************************************************************************)

CONSTANTS
    Ids,            \* reports
    Exporters       \* requests for an export

VARIABLES
    drafts,         \* the reports on file that are not final
    finals,         \* the final ones: <<report, its row>>
    released        \* <<export, report>>

Init == drafts = {} /\ finals = {} /\ released = {}

Final(r) == \E f \in finals : f[1] = r

File(r) ==
    /\ r \notin drafts /\ ~Final(r)
    /\ drafts' = drafts \cup {r}
    /\ UNCHANGED <<finals, released>>

Finalize(r) ==
    /\ r \in drafts
    /\ drafts' = drafts \ {r}
    /\ \E f \in finals' : f[1] = r /\ finals' = finals \cup {f}
    /\ UNCHANGED released

Release(q, r) ==
    /\ Final(r)
    /\ \A s \in Ids : <<q, s>> \notin released
    /\ released' = released \cup {<<q, r>>}
    /\ UNCHANGED <<drafts, finals>>

Next ==
    \/ \E r \in Ids : File(r) \/ Finalize(r)
    \/ \E q \in Exporters, r \in Ids : Release(q, r)

Spec == Init /\ [][Next]_<<drafts, finals, released>>

=============================================================================
