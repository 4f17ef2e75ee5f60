------------------------------ MODULE MCSaver ------------------------------
(* ScreenSaver on small instances: the kinds of messages as definitions. *)
EXTENDS ScreenSaver

Info == {"info"}
InfoAndError == {"info", "error"}
=============================================================================
