----------------------------- MODULE CaptureBackoff -----------------------------
(***************************************************************************)
(* Capture with a history variable: the delay of the last armed retry,     *)
(* forgotten when a card is opened, another device is chosen, or ffmpeg    *)
(* could not even be executed.                                             *)
(***************************************************************************)
EXTENDS Capture

VARIABLE lastDelay   \* 0: no retry since one of these events

ArmsRetry == ~restartTimer /\ restartTimer'

CardOpens == \E p \in Procs : proc[p] = "up" /\ proc'[p] = "open"

ExecFails == \E p \in Procs : proc[p] = "failed"

HistoryInit == Init /\ lastDelay = 0

HistoryNext ==
    /\ Next
    /\ lastDelay' = IF CardOpens \/ ExecFails \/ device' # device THEN 0
                    ELSE IF ArmsRetry THEN restartDelayMs
                    ELSE lastDelay

HistorySpec == HistoryInit /\ [][HistoryNext]_<<vars, lastDelay>>

\* "Exponential backoff, capped. A missing or busy sound card must not turn into a
\* spawn loop" (audio.js:372-374): between two retries of one device that never
\* opened the card the delay doubles.  It does not: the "spawn" event comes for any
\* ffmpeg that could be executed, card or no card, and resets the delay.
BackoffGrows ==
    [][ArmsRetry /\ lastDelay # 0 => restartDelayMs >= Doubled(lastDelay)]_<<vars, lastDelay>>
=================================================================================
