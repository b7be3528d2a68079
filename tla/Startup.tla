------------------------------ MODULE Startup ------------------------------
(***************************************************************************)
(* The life of a node process: command line and config file are merged and *)
(* validated, the node is assembled and made ready, and a SIGHUP brings    *)
(* the four reloadable settings in line with the file again.               *)
(*                                                                         *)
(* main() goes through run_with_tls; serve_with_tls and spawn_with_tls are *)
(* the entry points of programs that embed a node and of the tests.  Three *)
(* tasks run beside each other: the start-up itself, the reloader that     *)
(* SIGHUP wakes, and the applier that takes a reload from a watch channel. *)
(* The file can be edited or removed between any two of their steps.       *)
(***************************************************************************)
EXTENDS Naturals, FiniteSets

CONSTANTS Unset,        \* a flag that is not given, an empty list
          Malformed,    \* values that do not parse (an empty token file too)
          Zero,         \* the number 0
          Starts,       \* command lines, entry points and first config files
          Edits,        \* what an operator may make of the config file
          Missing,      \* there is no file
          Garbage,      \* a file that is no TOML, or has an unknown key
          MaxEdits,     \* bound: edits of the file
          MaxSignals    \* bound: SIGHUPs

ASSUME StartupAssumption ==
    /\ Unset \notin Malformed
    /\ MaxEdits \in Nat /\ MaxSignals \in Nat

Reloadables == {"topic_acl", "peer_topic_acl", "allow_peer", "peer_topic_filter"}
Tls == {"tls_cert", "tls_key", "tls_ca"}
Flags == Reloadables \cup Tls \cup
    {"metrics_addr", "metrics_token_file", "data_dir", "persisted_message_ttl_secs",
     "dead_letter_topic", "publish_rate_limit_per_sec", "publish_rate_limit_burst"}

VARIABLES start,      \* the constant part: command line, entry point
          disk,       \* the config file
          existed,    \* ReloadSource.config_file_existed_at_startup
          phase,      \* how far the start-up is
          config,     \* EffectiveConfig
          ready,      \* Readiness
          loaded,     \* rehydrate_from_store: "no", "yes" or "failed"
          live,       \* Shared: the four Reloadables
          enforced,   \* what the connections and links that exist were last held to
          pending,    \* a SIGHUP that the reloader has not received
          reloader,   \* "none", "idle" or "checked"
          watch,      \* the channel: its value, and whether that is unseen
          applier,    \* "none", "idle", or the next thing it installs
          acls,       \* the value the applier took
          answer,     \* the last answer of the metrics endpoint
          refusals,   \* Metrics: scrapes without the token
          seen,       \* history: contents the file had
          signalled,  \* history: a SIGHUP was sent since the last edit
          edits, signals

startupVars == <<start, disk, existed, phase, config, ready, loaded, live, enforced, pending,
                 reloader, watch, applier, acls, answer, refusals, seen, signalled, edits, signals>>

bootVars == <<phase, config, ready, loaded>>
reloadVars == <<pending, reloader, watch>>
applyVars == <<live, enforced, applier, acls>>
httpVars == <<answer, refusals>>
worldVars == <<disk, seen, signalled, edits, signals>>
-----------------------------------------------------------------------------
(* Configuration                                                            *)

Empty == [f \in Flags |-> Unset]
Given(s, f) == s[f] # Unset

\* EffectiveConfig::merge and merge_list: a flag that is given replaces what
\* the file says, a list as a whole.
Merge(file) == [f \in Flags |-> IF Given(start.cli, f) THEN start.cli[f] ELSE file[f]]

\* The cross-flag constraints of EffectiveConfig::merge.
Coherent(s) ==
    /\ (\A f \in Tls : Given(s, f)) \/ (\A f \in Tls : ~Given(s, f))
    /\ Given(s, "allow_peer") => Given(s, "tls_cert")
    /\ Given(s, "metrics_token_file") => Given(s, "metrics_addr")
    /\ Given(s, "persisted_message_ttl_secs") => Given(s, "data_dir")
    /\ Given(s, "publish_rate_limit_burst") => Given(s, "publish_rate_limit_per_sec")

\* parse_fingerprint, parse_topic_acl, PeerTopicFilter::parse.
AclsParse(s) == \A f \in Reloadables : s[f] \notin Malformed

\* What main() refuses after that.
Valid(s) ==
    /\ Coherent(s) /\ AclsParse(s)
    /\ s["metrics_token_file"] \notin Malformed
    /\ s["dead_letter_topic"] \notin Malformed
    /\ s["publish_rate_limit_per_sec"] # Zero
    /\ s["publish_rate_limit_burst"] # Zero

\* config::load: a missing file is an empty one.
Contents == IF disk = Missing THEN Empty ELSE disk

\* NodeOptions and ReloadableAcls: the four settings of a configuration.
Acls(s) == [f \in Reloadables |-> s[f]]
None == [f \in Reloadables |-> Unset]

\* ReloadSource::reload after the read: TLS is as it was at the start.
Reloads(file) ==
    /\ AclsParse(Merge(file))
    /\ Given(Merge(file), "allow_peer") => Given(config, "tls_cert")
-----------------------------------------------------------------------------
StartupInit ==
    /\ \E s \in Starts :
          /\ start = [cli |-> s.cli, entry |-> s.entry]
          /\ disk = s.file
          /\ phase = IF s.entry = "run" THEN "boot" ELSE "bound"
          /\ config = s.cli
          /\ seen = IF s.file = Missing THEN {Empty} ELSE {s.file} \ {Garbage}
    /\ existed = FALSE /\ ready = FALSE /\ loaded = "no"
    /\ live = None /\ enforced = None /\ acls = None
    /\ pending = FALSE /\ reloader = "none" /\ applier = "none"
    /\ watch = [value |-> None, unseen |-> FALSE]
    /\ answer = [path |-> "none", authorized |-> TRUE, status |-> 0] /\ refusals = 0
    /\ signalled = FALSE /\ edits = 0 /\ signals = 0

At(p) == phase = p
Running == phase \notin {"refused", "killed", "stopped"}
Then(p) == phase' = p

\* main: is there a config file?  It is read in a step of its own.
FindConfig ==
    /\ At("boot")
    /\ existed' = (disk # Missing)
    /\ Then("found")
    /\ UNCHANGED <<start, config, ready, loaded, reloadVars, applyVars, httpVars, worldVars>>

\* main: load, merge, validate, and install the SIGHUP handler.
LoadConfig ==
    /\ At("found")
    /\ IF disk # Garbage /\ Valid(Merge(Contents))
       THEN /\ config' = Merge(Contents)
            /\ reloader' = "idle"
            /\ Then("configured")
       ELSE Then("refused") /\ UNCHANGED <<config, reloader>>
    /\ UNCHANGED <<start, existed, ready, loaded, pending, watch, applyVars, httpVars, worldVars>>

\* run_with_tls: the listener first.
Bind ==
    /\ At("configured")
    /\ Then("bound")
    /\ UNCHANGED <<start, existed, config, ready, loaded, reloadVars, applyVars, httpVars, worldVars>>

\* attach_store, TlsConfig::build, and the settings of Shared.
Assemble ==
    /\ At("bound")
    /\ live' = Acls(config) /\ enforced' = Acls(config)
    /\ Then("assembled")
    /\ UNCHANGED <<start, existed, config, ready, loaded, reloadVars, applier, acls, httpVars, worldVars>>

\* A port in use, a store or certificate that cannot be read: "?" everywhere.
StartFails ==
    /\ \/ At("configured") \/ At("bound")
       \/ At("spawned") /\ start.entry = "run" /\ Given(config, "metrics_addr")
    /\ Then("refused")
    /\ UNCHANGED <<start, existed, config, ready, loaded, reloadVars, applyVars, httpVars, worldVars>>

Background == start.entry = "spawn" /\ Given(config, "data_dir")

\* rehydrate_from_store, awaited by run_with_tls and serve_with_tls, which a
\* failure ends.
Rehydrate ==
    /\ At("assembled") /\ ~Background
    /\ \/ ~Given(config, "data_dir") /\ Then("rehydrated") /\ UNCHANGED loaded
       \/ Given(config, "data_dir") /\ loaded' = "yes" /\ Then("rehydrated")
       \/ Given(config, "data_dir") /\ loaded' = "failed" /\ Then("refused")
    /\ UNCHANGED <<start, existed, config, ready, reloadVars, applyVars, httpVars, worldVars>>

\* spawn_with_tls rehydrates beside everything else, and is ready after the
\* attempt whether it succeeds or not.
RehydrateInBackground ==
    /\ Background /\ loaded = "no" /\ phase \in {"spawned", "serving"}
    /\ loaded' \in {"yes", "failed"}
    /\ ready' = TRUE
    /\ UNCHANGED <<start, existed, phase, config, reloadVars, applyVars, httpVars, worldVars>>

\* Mutation: ready at the same place whichever the entry point.
SpawnTasksReady ==
    /\ At("rehydrated") \/ (At("assembled") /\ Background)
    /\ ready' = TRUE
    /\ applier' = IF reloader = "none" THEN "none" ELSE "idle"
    /\ Then("spawned")
    /\ UNCHANGED <<start, existed, config, loaded, reloadVars, live, enforced, acls, httpVars, worldVars>>

\* Mutation: the applier starts with whatever the channel holds as seen.
SpawnTasksLate ==
    /\ At("rehydrated") \/ (At("assembled") /\ Background)
    /\ ready' = IF Background THEN ready ELSE TRUE
    /\ applier' = IF reloader = "none" THEN "none" ELSE "idle"
    /\ watch' = [watch EXCEPT !.unseen = FALSE]
    /\ Then("spawned")
    /\ UNCHANGED <<start, existed, config, loaded, pending, reloader, live, enforced, acls,
                   httpVars, worldVars>>

\* mark_ready, and the background tasks.  The applier's end of the channel
\* is as old as the channel: a reload that is in it is unseen.
SpawnTasks ==
    /\ At("rehydrated") \/ (At("assembled") /\ Background)
    /\ ready' = IF Background THEN ready ELSE TRUE
    /\ applier' = IF reloader = "none" THEN "none" ELSE "idle"
    /\ Then("spawned")
    /\ UNCHANGED <<start, existed, config, loaded, reloadVars, live, enforced, acls, httpVars, worldVars>>

\* The metrics listener (run_with_tls only), the seed peers, accept_loop.
Serve ==
    /\ At("spawned")
    /\ Then("serving")
    /\ UNCHANGED <<start, existed, config, ready, loaded, reloadVars, applyVars, httpVars, worldVars>>

\* accept_loop gives up when accept fails.
AcceptFails ==
    /\ At("serving")
    /\ Then("stopped")
    /\ UNCHANGED <<start, existed, config, ready, loaded, reloadVars, applyVars, httpVars, worldVars>>
-----------------------------------------------------------------------------
(* SIGHUP                                                                   *)

\* Between the two reads of a start or of a reload.
InWindow == At("found") \/ reloader = "checked"

\* The operator edits, removes or restores the file.
Edit(contents) ==
    /\ start.entry = "run" /\ Running /\ edits < MaxEdits /\ contents # disk
    /\ disk' = contents
    /\ seen' = CASE contents = Garbage -> seen
                 [] contents = Missing -> IF existed /\ ~InWindow THEN seen ELSE seen \cup {Empty}
                 [] OTHER -> seen \cup {contents}
    /\ signalled' = FALSE
    /\ edits' = edits + 1
    /\ UNCHANGED <<start, existed, signals, bootVars, reloadVars, applyVars, httpVars>>

\* Without the handler a SIGHUP ends the process; with it, signals that are
\* not received yet are one.
Sighup ==
    /\ start.entry = "run" /\ Running /\ signals < MaxSignals
    /\ signals' = signals + 1
    /\ IF reloader = "none" THEN Then("killed") /\ UNCHANGED <<pending, signalled>>
       ELSE pending' = TRUE /\ signalled' = TRUE /\ UNCHANGED phase
    /\ UNCHANGED <<start, disk, existed, config, ready, loaded, reloader, watch, applyVars, httpVars,
                   seen, edits>>

\* Mutation: a reload takes a file that is gone for an empty one.
CheckNothing ==
    /\ Running /\ reloader = "idle" /\ pending
    /\ pending' = FALSE
    /\ reloader' = "checked"
    /\ UNCHANGED <<start, existed, watch, bootVars, applyVars, httpVars, worldVars>>

\* The reloader receives a signal; a file that was there must still be.
CheckFile ==
    /\ Running /\ reloader = "idle" /\ pending
    /\ pending' = FALSE
    /\ reloader' = IF existed /\ disk = Missing THEN "idle" ELSE "checked"
    /\ UNCHANGED <<start, existed, watch, bootVars, applyVars, httpVars, worldVars>>

\* ReloadSource::reload reads the file and sends all four settings or none.
Reload ==
    /\ Running /\ reloader = "checked"
    /\ reloader' = "idle"
    /\ watch' = IF disk # Garbage /\ Reloads(Contents)
                THEN [value |-> Acls(Merge(Contents)), unseen |-> TRUE] ELSE watch
    /\ UNCHANGED <<start, existed, pending, bootVars, applyVars, httpVars, worldVars>>

\* spawn_reload_applier: one of its statements at a time.
Applies(now, next) ==
    /\ Running /\ applier = now /\ applier' = next
    /\ UNCHANGED <<start, existed, pending, reloader, bootVars, httpVars, worldVars>>

TakeReload ==
    /\ watch.unseen /\ Applies("idle", "topic_acl")
    /\ acls' = watch.value /\ watch' = [watch EXCEPT !.unseen = FALSE]
    /\ UNCHANGED <<live, enforced>>

SetAcl(f, next) ==
    /\ Applies(f, next)
    /\ live' = [live EXCEPT ![f] = acls[f]]
    /\ UNCHANGED <<enforced, acls, watch>>

\* reconcile_topic_acls holds the forwarders to what is installed,
\* disconnect_unless the links to what is about to be.
Reconcile ==
    /\ Applies("reconcile", "disconnect")
    /\ enforced' = [enforced EXCEPT !["topic_acl"] = live["topic_acl"],
                                    !["peer_topic_acl"] = live["peer_topic_acl"]]
    /\ UNCHANGED <<live, acls, watch>>

DisconnectUnless ==
    /\ Applies("disconnect", "allow_peer")
    /\ enforced' = [enforced EXCEPT !["allow_peer"] = acls["allow_peer"]]
    /\ UNCHANGED <<live, acls, watch>>

\* The filter is announced again only when it is not the one before.
SetFilter ==
    /\ Applies("peer_topic_filter",
               IF live["peer_topic_filter"] = acls["peer_topic_filter"] THEN "idle" ELSE "announce")
    /\ live' = [live EXCEPT !["peer_topic_filter"] = acls["peer_topic_filter"]]
    /\ UNCHANGED <<enforced, acls, watch>>

Announce ==
    /\ Applies("announce", "idle")
    /\ enforced' = [enforced EXCEPT !["peer_topic_filter"] = live["peer_topic_filter"]]
    /\ UNCHANGED <<live, acls, watch>>

Apply ==
    \/ TakeReload \/ SetAcl("topic_acl", "peer_topic_acl") \/ SetAcl("peer_topic_acl", "reconcile")
    \/ Reconcile \/ DisconnectUnless \/ SetAcl("allow_peer", "peer_topic_filter")
    \/ SetFilter \/ Announce
-----------------------------------------------------------------------------
(* The endpoint of --metrics-addr                                           *)

\* handle_request: health first and for everybody, then the token.
Status(path, authorized) ==
    CASE path = "/livez" -> 200
      [] path = "/readyz" -> IF ready THEN 200 ELSE 503
      [] OTHER -> IF Given(config, "metrics_token_file") /\ ~authorized THEN 401 ELSE 200

Request(path, authorized) ==
    /\ start.entry = "run" /\ At("serving") /\ Given(config, "metrics_addr")
    /\ answer.path = "none"
    /\ answer' = [path |-> path, authorized |-> authorized, status |-> Status(path, authorized)]
    /\ refusals' = IF Status(path, authorized) = 401 THEN refusals + 1 ELSE refusals
    /\ UNCHANGED <<start, existed, bootVars, reloadVars, applyVars, worldVars>>
-----------------------------------------------------------------------------
StartStep ==
    \/ FindConfig \/ LoadConfig \/ Bind \/ Assemble \/ Rehydrate \/ RehydrateInBackground
    \/ SpawnTasks \/ Serve

StartupNext ==
    \/ StartStep \/ StartFails \/ AcceptFails
    \/ CheckFile \/ Reload \/ Apply
    \/ \E contents \in Edits : Edit(contents)
    \/ Sighup
    \/ \E path \in {"/livez", "/readyz", "/metrics"}, authorized \in BOOLEAN :
           Request(path, authorized)

StartupSpec == StartupInit /\ [][StartupNext]_startupVars

\* The three tasks are scheduled; nobody owes an edit, a signal, a scrape
\* or a failure.
FairStartupSpec ==
    /\ StartupSpec
    /\ WF_startupVars(StartStep) /\ WF_startupVars(CheckFile \/ Reload) /\ WF_startupVars(Apply)
-----------------------------------------------------------------------------
\* Between two reloads the four settings in force are those of one version
\* of the file under one command line: never some of one and some of another,
\* never a value of the command line lost, and a file that is gone counts as
\* an empty one only where it was gone between the check and the read.  The
\* connections and links that exist were last held to the same settings.
ReloadsAreWhole ==
    applier = "idle" => enforced = live /\ \E file \in seen : live = Acls(Merge(file))

\* Nobody is told that the node is ready before the attempt to read the store
\* is over, and nobody is served a node that run_with_tls could not refill.
ReadyMeansLoaded ==
    /\ ready /\ Given(config, "data_dir") =>
           loaded = "yes" \/ (start.entry = "spawn" /\ loaded = "failed")
    /\ answer.path = "/readyz" => answer.status = 200

\* A SIGHUP after the last edit brings the file into force and nothing older
\* replaces it, however the signal falls between start-up, an earlier reload
\* and its application.
ReloadTakesEffect ==
    <>[](Running /\ signalled /\ disk \notin {Missing, Garbage} /\ Reloads(Contents))
        => <>[](disk # Garbage /\ live = Acls(Merge(Contents)))
=============================================================================
