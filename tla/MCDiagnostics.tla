--------------------------- MODULE MCDiagnostics ----------------------------
(* Two warnings, one of which the command line may make an error or keep from
   being one, alone and with the other in a group; the options on their own
   and together, and a limit of one error or none.                          *)
EXTENDS Diagnostics

CONSTANTS w, v

Default == Info("warning", FALSE, FALSE)
OneOrBoth == {<<w>>, <<w, v>>}
ThreeCommandLines ==
  {[d \in {w, v} |-> IF d = v THEN Info("ignored", FALSE, FALSE) ELSE i] :
     i \in {Default, Info("error", TRUE, FALSE),
            [Default EXCEPT !.noWarningAsError = TRUE]}}

Plain == [everything |-> FALSE, ignore |-> FALSE, werror |-> FALSE,
          fatal |-> FALSE, limit |-> 0]
SomeOptions ==
  {[Plain EXCEPT !.limit = 1], [Plain EXCEPT !.werror = TRUE, !.fatal = TRUE],
   [Plain EXCEPT !.everything = TRUE, !.werror = TRUE, !.limit = 1],
   [Plain EXCEPT !.ignore = TRUE]}
=============================================================================
