--------------------------- MODULE MCInstallation ---------------------------
(* One worker, two databases and one change of the files the server read are  *)
(* enough to see which of them a command and the server open.               *)
EXTENDS Installation
=============================================================================
