--------------------------- MODULE MCChangeDetector ---------------------------
(***************************************************************************)
(* Instances of ChangeDetector for TLC.                                    *)
(***************************************************************************)
EXTENDS ChangeDetector

CONSTANTS m1, f1, u1

\* The monitor m1 of u1 and a caller f1 of ForceCheck(u1).
MCUrlOf == [t \in Checkers |-> u1]

\* A page whose dynamic value is not quoted, as in a query string, and one with
\* a quoted attribute, <script nonce="...">, of which normalizeContent leaves the value.
PlainPage  == <<"text", "pattern", "value", "quote">>
QuotedPage == <<"text", "pattern", "quote", "value", "quote">>
MCTemplates == {PlainPage, QuotedPage}
===============================================================================
