----------------------- MODULE MCServiceControlClient -----------------------
(* Small instances of ServiceControlClient for TLC.                        *)
EXTENDS ServiceControlClient
=============================================================================
