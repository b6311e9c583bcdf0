----------------------------- MODULE DownloadPace -----------------------------
(***************************************************************************)
(* The speed limit of the downloads: BandwidthLimiter::consume                *)
(* (download_progress.rs), called by every worker after each read of          *)
(* download_to_file.  Time is in ticks of a window of one second; a worker     *)
(* asks under the lock, and sleeps for what was left of the window when it     *)
(* asked.  At the limit of 500 kilobits per second and in units of 62,500      *)
(* bits, the buffer of 64 KiB is a read of 9 against a budget of 8.           *)
(***************************************************************************)
EXTENDS Naturals, Sequences

CONSTANTS
    Workers,
    Sizes,         \* bits of one read
    Budget,        \* bits of one window
    Window         \* ticks of one window

VARIABLES
    elapsed,       \* since the window began, at most Window
    sent,          \* bits_sent
    left,          \* per worker: the reads it has still to pay
    sleep          \* per worker: ticks until it asks again

vars == <<elapsed, sent, left, sleep>>

\* A file is read through one buffer: one read, or two of the same size.
Reads == {[k \in 1..n |-> size] : n \in 1..2, size \in Sizes}

Init ==
    /\ elapsed = 0 /\ sent = 0
    /\ left \in [Workers -> Reads] /\ sleep = [w \in Workers |-> 0]

AtLeastOne(n) == IF n = 0 THEN 1 ELSE n

(* Mutant of Consume: the window is opened anew only for a read that fits.    *)
KeepsWindow(w) ==
    LET fits == sent + Head(left[w]) <= Budget
    IN  /\ left[w] # <<>> /\ sleep[w] = 0
        /\ elapsed' = IF elapsed = Window /\ fits THEN 0 ELSE elapsed
        /\ sent' = IF fits THEN sent + Head(left[w]) ELSE sent
        /\ left' = IF fits THEN [left EXCEPT ![w] = Tail(@)] ELSE left
        /\ sleep' = IF fits THEN sleep ELSE [sleep EXCEPT ![w] = AtLeastOne(Window - elapsed)]

\* The window begins anew when it is asked after its end, whether the read fits or not.
Consume(w) ==
    LET over == elapsed = Window
        used == IF over THEN 0 ELSE sent
        fits == used + Head(left[w]) <= Budget
    IN  /\ left[w] # <<>> /\ sleep[w] = 0
        /\ elapsed' = IF over THEN 0 ELSE elapsed
        /\ sent' = IF fits THEN used + Head(left[w]) ELSE used
        /\ left' = IF fits THEN [left EXCEPT ![w] = Tail(@)] ELSE left
        /\ sleep' = IF fits THEN sleep ELSE [sleep EXCEPT ![w] = AtLeastOne(Window - elapsed)]

Tick ==
    /\ \E w \in Workers : left[w] # <<>>
    /\ elapsed' = IF elapsed < Window THEN elapsed + 1 ELSE Window
    /\ sleep' = [w \in Workers |-> IF sleep[w] = 0 THEN 0 ELSE sleep[w] - 1]
    /\ UNCHANGED <<sent, left>>

Next == Tick \/ \E w \in Workers : Consume(w)

\* Time passes and the scheduler runs every thread that has slept enough.
Spec == Init /\ [][Next]_vars /\ WF_vars(Tick) /\ \A w \in Workers : WF_vars(Consume(w))

-------------------------------------------------------------------------------
Small(w) == \A i \in DOMAIN left[w] : left[w][i] <= Budget

\* A read that fits into one window is let through, however many workers ask, and although
\* another worker's read never fits.
SmallReadsPass == \A w \in Workers : Small(w) ~> left[w] = <<>>

\* Every read passes.  It is the speed that is limited, and limits in kilobits are offered.
EveryReadPasses == \A w \in Workers : <>(left[w] = <<>>)
===============================================================================
