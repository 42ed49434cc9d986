----------------------------- MODULE HistoryJobs ----------------------------
(***************************************************************************)
(* Scheduled runs of `diagnose` and `perf` that share a history file       *)
(* (cli.py, sitewide/history.py, perf/history.py, sitewide/notify.py).  A  *)
(* job measures, compares itself with the last entry, appends its own, and *)
(* tells a webhook of a regression.  The file has no lock and is rewritten *)
(* in place: it is read for the comparison, read again to append, emptied, *)
(* and filled.                                                             *)
(***************************************************************************)
EXTENDS Naturals, Sequences, FiniteSets

CONSTANTS
  NJobs,        \* jobs are numbered by when they start
  Threshold,    \* --alert-threshold, and the thresholds of the metrics
  SiteReadings, \* health scores: [site, templates : label -> score]
  PerfReadings, \* medians: [lcp, tbt], Nothing when nothing was measured
  OptionSets,   \* the options jobs may be started with
  MaxRetries,   \* of a webhook call
  MaxJobStops,  \* bound: jobs killed or out of disk
  Nothing

VARIABLES
  file,    \* per command: the entries, none when there is no file
  torn,    \* commands whose file was emptied and not yet filled: its JSON does not parse
  run,     \* per job: what it does and knows
  jobStops,
  raced    \* jobs that rewrote the file while another one was between read and write

historyVars == <<file, torn, run, jobStops, raced>>

Jobs == 1 .. NJobs

HistoryBounds ==
  /\ {NJobs, MaxRetries, MaxJobStops, Threshold} \subseteq Nat /\ Threshold > 0
  /\ Nothing \notin Nat

Commands == {"diagnose", "perf"}
Readings(cmd) == IF cmd = "diagnose" THEN SiteReadings ELSE PerfReadings

Readable(cmd) == cmd \notin torn

-----------------------------------------------------------------------------
Dropped(before, after) == after + Threshold <= before

\* A template is compared only when both runs have its label.
DetectRegression(previous, latest) ==
  {"site" : x \in {y \in {0} : Dropped(previous.site, latest.site)}}
    \cup {t \in DOMAIN previous.templates \cap DOMAIN latest.templates :
            Dropped(previous.templates[t], latest.templates[t])}

DetectPerformanceRegression(previous, latest) ==
  {m \in {"lcp", "tbt"} : previous[m] # Nothing /\ latest[m] # Nothing /\ Dropped(latest[m], previous[m])}

Regressions(cmd, history, latest) ==
  IF history = <<>> THEN {}
  ELSE IF cmd = "diagnose" THEN DetectRegression(history[Len(history)].reading, latest)
       ELSE DetectPerformanceRegression(history[Len(history)].reading, latest)

\* Combinations that diagnose refuses before it does anything.
UsageError(opts) ==
  \/ {"scenario", "site-wide"} \subseteq opts
  \/ "history" \in opts /\ "site-wide" \notin opts
  \/ "alert-webhook" \in opts /\ "history" \notin opts
  \/ "fail-on-regression" \in opts /\ "history" \notin opts
  \/ "fail-on-sdr-mismatch" \in opts /\ "sdr" \notin opts

Entry(j) == [job |-> j, reading |-> run[j].reading]

Idle == [stage |-> "idle", cmd |-> "diagnose", opts |-> {}, reading |-> Nothing, aligned |-> TRUE,
         alerts |-> {}, entries |-> <<>>, attempt |-> 0, received |-> 0, lost |-> 0,
         warned |-> FALSE, exit |-> Nothing]

HistoryInit ==
  /\ file = [cmd \in Commands |-> <<>>] /\ torn = {}
  /\ run = [j \in Jobs |-> Idle]
  /\ jobStops = 0 /\ raced = {}

Set(j, r) == run' = [run EXCEPT ![j] = r]
Quiet == UNCHANGED <<file, torn, jobStops, raced>>

\* The options are checked, the site is measured.
Start(j) ==
  /\ run[j].stage = "idle" /\ \A k \in 1 .. j - 1 : run[k].stage # "idle"
  /\ \E cmd \in Commands, opts \in OptionSets, aligned \in BOOLEAN :
     \E reading \in Readings(cmd) :
       /\ cmd = "perf" => opts \subseteq {"history"} /\ aligned
       /\ "sdr" \notin opts => aligned
       /\ Set(j, IF cmd = "diagnose" /\ UsageError(opts)
                   THEN [Idle EXCEPT !.stage = "ended", !.opts = opts, !.exit = 2]
                   ELSE [Idle EXCEPT !.stage = IF "history" \in opts THEN "measured" ELSE "report",
                                     !.cmd = cmd, !.opts = opts, !.reading = reading, !.aligned = aligned])
  /\ Quiet

\* An unreadable history ends the job with a traceback.
Aborted(j) == [run[j] EXCEPT !.stage = "ended", !.exit = 1]

\* load_history and the comparison, before the entry is appended.
Compare(j) ==
  /\ run[j].stage = "measured"
  /\ LET cmd == run[j].cmd IN
       Set(j, IF Readable(cmd)
                THEN [run[j] EXCEPT !.stage = "compared",
                                    !.alerts = Regressions(cmd, file[cmd], run[j].reading)]
                ELSE Aborted(j))
  /\ Quiet

\* append_history_entry reads the file again.
Append_(j) ==
  /\ run[j].stage = "compared"
  /\ LET cmd == run[j].cmd IN
       Set(j, IF Readable(cmd)
                THEN [run[j] EXCEPT !.stage = "appended",
                                    !.entries = Append(file[cmd], Entry(j))]
                ELSE Aborted(j))
  /\ Quiet

\* write_text opens the file for writing, which empties it ...
Truncate(j) ==
  /\ run[j].stage = "appended"
  /\ torn' = torn \cup {run[j].cmd}
  /\ Set(j, [run[j] EXCEPT !.stage = "truncated"])
  /\ UNCHANGED <<file, jobStops, raced>>

\* Jobs between their first read and their write.
Busy(cmd) == {k \in Jobs : run[k].cmd = cmd /\ run[k].stage \in {"compared", "appended", "truncated"}}

\* ... and fills it.
Fill(j) ==
  /\ run[j].stage = "truncated"
  /\ LET cmd == run[j].cmd IN
       /\ file' = [file EXCEPT ![cmd] = run[j].entries] /\ torn' = torn \ {cmd}
       /\ raced' = IF Busy(cmd) = {j} THEN raced ELSE raced \cup Busy(cmd)
       /\ Set(j, [run[j] EXCEPT !.entries = <<>>, !.stage =
                    IF run[j].alerts # {} /\ "alert-webhook" \in run[j].opts THEN "alert" ELSE "report"])
  /\ UNCHANGED jobStops

\* Mutant of Notify: only a clear refusal ends the attempts.
NotifyAgain(j) ==
  /\ run[j].stage = "alert"
  /\ \E answer \in {"accepted", "refused", "later", "lost"} :
       LET over == answer = "refused" \/ run[j].attempt = MaxRetries
       IN Set(j, [run[j] EXCEPT !.attempt = @ + 1,
                                !.received = IF answer \in {"accepted", "lost"} THEN @ + 1 ELSE @,
                                !.lost = IF answer = "lost" THEN @ + 1 ELSE @,
                                !.warned = over /\ answer # "accepted",
                                !.stage = IF over THEN "report" ELSE "alert"])
  /\ Quiet

\* WebhookNotifier.send: one attempt.  The webhook accepts, refuses for good, asks
\* to come back later, or its answer is lost on the way.
Notify(j) ==
  /\ run[j].stage = "alert"
  /\ \E answer \in {"accepted", "refused", "later", "lost"} :
       LET last == run[j].attempt = MaxRetries
           over == answer \in {"accepted", "refused"} \/ last
       IN Set(j, [run[j] EXCEPT !.attempt = @ + 1,
                                !.received = IF answer \in {"accepted", "lost"} THEN @ + 1 ELSE @,
                                !.lost = IF answer = "lost" THEN @ + 1 ELSE @,
                                !.warned = over /\ answer # "accepted",
                                !.stage = IF over THEN "report" ELSE "alert"])
  /\ Quiet

\* The report is written; only a mismatch with the SDR changes the exit code.
Report(j) ==
  /\ run[j].stage = "report"
  /\ Set(j, [run[j] EXCEPT !.stage = "ended",
                           !.exit = IF "fail-on-sdr-mismatch" \in run[j].opts /\ ~run[j].aligned THEN 1 ELSE 0])
  /\ Quiet

StopJob(j) ==
  /\ run[j].stage \notin {"idle", "ended"} /\ jobStops < MaxJobStops
  /\ jobStops' = jobStops + 1
  /\ Set(j, Aborted(j))
  /\ UNCHANGED <<file, torn, raced>>

HistoryNext ==
  \E j \in Jobs :
     \/ Start(j) \/ Compare(j) \/ Append_(j) \/ Truncate(j) \/ Fill(j)
     \/ Notify(j) \/ Report(j) \/ StopJob(j)

HistorySpec == HistoryInit /\ [][HistoryNext]_historyVars

-----------------------------------------------------------------------------
(* Properties *)

\* A job that had the file to itself and ended well is in the history, and the
\* entry before its own is the one it was compared with: no run is skipped or
\* compared with itself.
HistoryFaithful ==
  \A j \in Jobs :
    LET cmd == run[j].cmd
        mine == {i \in 1 .. Len(file[cmd]) : file[cmd][i].job = j}
    IN run[j].exit = 0 /\ "history" \in run[j].opts /\ Readable(cmd) /\ j \notin raced =>
         /\ Cardinality(mine) = 1
         /\ \A i \in mine : run[j].alerts = Regressions(cmd, SubSeq(file[cmd], 1, i - 1), run[j].reading)
         /\ \A i \in mine : i > 1 /\ run[j].alerts = {} /\ cmd = "diagnose" =>
              ~Dropped(file[cmd][i - 1].reading.site, run[j].reading.site)

\* The history is torn only while a job rewrites it, or because one was stopped then.
TornOnlyByStop ==
  \A cmd \in Commands :
    ~Readable(cmd) => jobStops > 0 \/ \E j \in Jobs : run[j].cmd = cmd /\ run[j].stage = "truncated"

\* The webhook gets an alert more than once only when an answer of it was lost, and
\* never without a regression; a job that could not deliver it warns.
AlertedOnce ==
  \A j \in Jobs :
    /\ run[j].received <= 1 + run[j].lost
    /\ run[j].attempt <= MaxRetries + 1
    /\ run[j].received > 0 => run[j].alerts # {}
    /\ run[j].exit = 0 /\ run[j].alerts # {} /\ "alert-webhook" \in run[j].opts =>
         run[j].warned \/ run[j].received > 0

\* A job that had the history file to itself is recorded and was compared with the run
\* before it, only a stop tears the file, and an alert is delivered once or warned of.
HistoryKept == HistoryFaithful /\ TornOnlyByStop /\ AlertedOnce

\* Claimed by the help of --fail-on-regression ("Exit non-zero when --history
\* detects a regression") and docs/CI.md ("without it the job still fails").
RegressionFailsTheJob ==
  \A j \in Jobs :
    run[j].stage = "ended" /\ "fail-on-regression" \in run[j].opts /\ run[j].alerts # {} =>
      run[j].exit # 0
=============================================================================
