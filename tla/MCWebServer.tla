---------------------------- MODULE MCWebServer ----------------------------
(***************************************************************************)
(* WebServer with servers enough for one to be started after a stop, and   *)
(* for a start to fail.                                                    *)
(***************************************************************************)
EXTENDS WebServer
=============================================================================
