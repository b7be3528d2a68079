------------------------------ MODULE MCStartup ------------------------------
(* Command lines and config files that differ in what they set, and in what *)
(* is wrong with them.                                                       *)
EXTENDS Startup

CONSTANTS v1, v2, bad

File(settings) == [f \in Flags |-> IF f \in DOMAIN settings THEN settings[f] ELSE Unset]

\* The file a node starts from, and two versions of it that differ in every
\* reloadable setting the command line does not fix.
First == File([topic_acl |-> v1, peer_topic_filter |-> v1])
Second == File([topic_acl |-> v2, peer_topic_acl |-> v2, allow_peer |-> v2])
Broken == File([topic_acl |-> v2, peer_topic_acl |-> bad])

Daemon(cli, file) == [cli |-> cli, entry |-> "run", file |-> file]
Plain == File([peer_topic_acl |-> v1])
Secured == [f \in Flags |-> IF f \in Tls \cup {"metrics_addr", "metrics_token_file", "data_dir"}
                            THEN v1 ELSE Unset]

\* Refused: half of TLS, an allow list without it, a dependent flag alone, a
\* rate of zero, a dead letter topic that is none, a file that is none.
Refused == {Daemon(File([tls_cert |-> v1]), First), Daemon(Empty, Second),
            Daemon(File([persisted_message_ttl_secs |-> v1]), First),
            Daemon(File([publish_rate_limit_per_sec |-> Zero]), Missing),
            Daemon(File([dead_letter_topic |-> bad]), First),
            Daemon(Empty, Garbage)}

Embedded == {[cli |-> Secured, entry |-> entry, file |-> Missing] : entry \in {"serve", "spawn"}}
            \cup {[cli |-> Empty, entry |-> "spawn", file |-> Missing]}

MCStarts == Refused \cup Embedded
            \cup {Daemon(Plain, First), Daemon(Secured, First), Daemon(Secured, Missing)}
MCEdits == {First, Second, Broken, Missing, Garbage}
=============================================================================
