--------------------------- MODULE MCReportFiles ---------------------------
(***************************************************************************)
(* A small instance of ReportFiles: two writers, at most one reader.       *)
(***************************************************************************)
EXTENDS ReportFiles, TLC

CONSTANTS w1, w2, r1, absent

Request(formats, perAPI, accepted) ==
    [formats |-> formats, perAPI |-> perAPI, accepted |-> accepted]

Both == <<"html", "yaml">>

\* One and two formats, one given twice, none, and one that is unknown; for
\* both kinds of names; and reports that are no submissions.
MCRequests ==
    { Request(<<"yaml">>, TRUE, TRUE), Request(Both, FALSE, TRUE),
      Request(Both, TRUE, TRUE), Request(<<"yaml", "yaml", "html">>, FALSE, TRUE),
      Request(<< >>, FALSE, TRUE), Request(<<"pdf", "yaml">>, FALSE, TRUE),
      Request(<<"yaml">>, TRUE, FALSE), Request(Both, FALSE, FALSE) }

Symmetric == Permutations({w1, w2})
=============================================================================
