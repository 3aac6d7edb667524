------------------------------ MODULE MCShell ------------------------------
(* A console of two rows of three cells, so that a prompt and two typed    *)
(* characters wrap; lines of four characters, and two arguments.           *)
EXTENDS Shell

PromptText == <<">">>
ReportText == <<"e">>
EchoWord == <<"e">>
ClearWord == <<"c">>
ReportWords == {<<"c", "e">>}
RebootWord == <<"c", "c">>
=============================================================================
