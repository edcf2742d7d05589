------------------------------- MODULE MCTask -------------------------------
(***************************************************************************)
(* Instances of TaskController for TLC.                                    *)
(***************************************************************************)
EXTENDS TaskController

Ordinary(type, policy) == [type |-> type, valid |-> TRUE, policy |-> policy]
Broken(type) == [type |-> type, valid |-> FALSE, policy |-> "Replace"]

NoTTL == None
OneTimeOnly == {Ordinary("OneTime", "Allow")}
ForbidOnly == {Ordinary("Cron", "Forbid")}
Crons == {Ordinary("Cron", "Forbid"), Ordinary("Cron", "Replace"), Broken("Cron")}
NotCron == {Ordinary("OneTime", "Allow"), Ordinary("Delay", "Allow"), Broken("Delay")}
=============================================================================
