-------------------------- MODULE MC_LogCollector --------------------------
(* Small instances of the LogCollector controller for TLC.                 *)
EXTENDS LogCollector

(* A standalone cluster in which everything the reconciler needs exists.   *)
MCHealthyObjs ==
    {"APIServer", "Tier", "License", "ExportLogs", "Installation", "PromCert",
     "LinseedCert", "SyslogCA"}

(* A LogCollector forwarding to syslog over TLS, as created by a user      *)
(* (not yet defaulted) and after defaulting.                               *)
MCSyslogLC(d) ==
    [exists |-> TRUE, stores |-> {"Syslog"}, syslogTLS |-> d,
     syslogIDS |-> FALSE, mtNS |-> FALSE, eksLog |-> FALSE, defaulted |-> d]

MCPlainLC ==
    [exists |-> TRUE, stores |-> {}, syslogTLS |-> FALSE, syslogIDS |-> FALSE,
     mtNS |-> FALSE, eksLog |-> FALSE, defaulted |-> FALSE]

MCSpecs == {MCSyslogLC(TRUE), MCPlainLC}

MCSyslogLCInit == MCSyslogLC(TRUE)

(* One API call per phase of the handler may fail: the conditions update, *)
(* the defaults patch, a prerequisite read, the apply loop, the Windows    *)
(* node list and the final status update.                                  *)
MCErrStages == {"ConditionsUpdate", "Defaults", "License", "ApplyFluentd",
                "WindowsNodes", "StatusUpdate"}

(* The healthy cluster with a Windows node.                                *)
MCWindowsObjs == MCHealthyObjs \cup {"WindowsNode"}

(* The Windows node list is the one API call that may fail.               *)
MCWinErrStages == {"WindowsNodes"}
=============================================================================
