--------------------------- MODULE MCToolVerdicts ---------------------------
(* Two steps that can both be refused: what the verdict of the scan says then.  *)
EXTENDS ToolVerdicts
TwoSteps == {<<"scan_ssl", "nikto_scan">>}
=============================================================================
