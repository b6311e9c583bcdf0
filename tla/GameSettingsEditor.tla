-------------------------- MODULE GameSettingsEditor --------------------------
(***************************************************************************)
(* The editor of one instance's options.txt (mc_options live.rs, the       *)
(* Session of launcher_ui and its dialog), next to the game and a settings *)
(* pass that write the same file.                                          *)
(*                                                                         *)
(* A value of a key is the number of the write that gave it, 0 when the    *)
(* file lacks the key.  `truth` is the history of who wrote a key last: an *)
(* edit counts from when it is made, the game's and the pass's writes when *)
(* the file has them, and while an edit is pending the edit stands.        *)
(*                                                                         *)
(* The editor runs on the frame thread: its steps never overlap each       *)
(* other, but the game and the pass may act between any two of them.       *)
(* `noticed` stands for "the stamp on disk is the one the view has": every *)
(* write is taken to change time or length.                                *)
(***************************************************************************)
EXTENDS Naturals, FiniteSets

CONSTANTS Keys, MaxValues, NoKey

VARIABLES options,    \* options.txt: [whole, at]
          live,       \* LiveOptions and the dialog around it
          saver,      \* what each of the two savers has in hand
          playing,    \* the game: its own copy of the options, and whether it is saving
          truth, written_values, overlaps

editorVars == <<options, live, saver, playing, truth, written_values, overlaps>>

Savers == {"editor", "pass"}
Blank == [k \in Keys |-> 0]
Idle == [phase |-> "idle", copy |-> Blank]

\* Mutant: the view is saved as it is.
ViewAsIs(edits, file) == IF edits = Blank THEN file ELSE [k \in Keys |-> IF edits[k] # 0 THEN edits[k] ELSE live.shown[k]]

\* A file with the pending edits on top.
OnTop(edits, file) == [k \in Keys |-> IF edits[k] # 0 THEN edits[k] ELSE file[k]]

\* OptionsFile::read(..).unwrap_or_default(): what cannot be read, or is half written, is empty.
Read(readable) == IF readable /\ options.whole THEN options.at ELSE Blank

EditorInit ==
    /\ options = [whole |-> TRUE, at |-> [k \in Keys |-> 1]]
    /\ live = [open |-> FALSE, shown |-> Blank, pending |-> Blank, noticed |-> FALSE,
               closing |-> 0, capturing |-> NoKey, hidden |-> FALSE]
    /\ saver = [s \in Savers |-> Idle]
    /\ playing = [runs |-> FALSE, saves |-> FALSE, copy |-> Blank]
    /\ truth = [k \in Keys |-> 1]
    /\ written_values = 1
    /\ overlaps = {}

Busy(s) == saver[s].phase # "idle"
Frame == live.open /\ ~Busy("editor") /\ live.closing = 0

\* Whoever changes the file while another writer is between its read and its rename.
Overlap(s) == IF \E t \in Savers \ {s} : Busy(t) THEN {"overlap"} ELSE {}

-------------------------------------------------------------------------------
(* Opening, and following the file.                                        *)

\* LiveOptions::open and reload: the stamp first, then the file.
Open ==
    /\ ~live.open
    /\ live' = [live EXCEPT !.open = TRUE, !.noticed = TRUE, !.closing = 0,
                            !.capturing = NoKey, !.hidden = FALSE]
    /\ saver' = [saver EXCEPT !["editor"].phase = "reload"]
    /\ UNCHANGED <<options, playing, truth, written_values, overlaps>>

SeeChange ==
    /\ Frame /\ ~live.noticed
    /\ live' = [live EXCEPT !.noticed = TRUE]
    /\ saver' = [saver EXCEPT !["editor"].phase = "reload"]
    /\ UNCHANGED <<options, playing, truth, written_values, overlaps>>

Reload ==
    /\ saver["editor"].phase = "reload"
    /\ \E readable \in BOOLEAN :
         /\ live' = [live EXCEPT !.shown = OnTop(live.pending, Read(readable))]
         /\ overlaps' = IF readable THEN overlaps ELSE overlaps \cup {"unreadable"}
    /\ saver' = [saver EXCEPT !["editor"] = Idle]
    /\ UNCHANGED <<options, playing, truth, written_values>>

\* Session::set_text, set_float, set_raw and set_keybind through LiveOptions::edit.
Edit(k) ==
    /\ Frame /\ written_values < MaxValues
    /\ live' = [live EXCEPT !.shown[k] = written_values + 1, !.pending[k] = written_values + 1,
                            !.capturing = NoKey]
    /\ truth' = [truth EXCEPT ![k] = written_values + 1]
    /\ written_values' = written_values + 1
    /\ UNCHANGED <<options, saver, playing, overlaps>>

-------------------------------------------------------------------------------
(* LiveOptions::flush, from poll, from closing, and from Drop.             *)

StartFlush ==
    \E readable \in BOOLEAN :
        LET disk == Read(readable)
            merged == OnTop(live.pending, disk)
        IN  /\ saver' = [saver EXCEPT !["editor"] =
                            [phase |-> IF merged = disk THEN "stamp" ELSE "write", copy |-> merged]]
            /\ overlaps' = overlaps \cup (IF readable THEN {} ELSE {"unreadable"})
                                    \cup (IF options.whole THEN {} ELSE {"overlap"})

PollFlush ==
    /\ Frame /\ live.pending # Blank
    /\ StartFlush
    /\ UNCHANGED <<options, live, playing, truth, written_values>>

\* The temporary file, of the saver's own, is renamed over options.txt.
Write(s) ==
    /\ saver[s].phase = "write"
    /\ options' = [whole |-> TRUE, at |-> saver[s].copy]
    /\ overlaps' = overlaps \cup Overlap(s) \cup (IF playing.saves THEN {"overlap"} ELSE {})
                            \cup (IF s = "pass" /\ saver["editor"].phase = "stamp" THEN {"stamp"} ELSE {})
    /\ live' = [live EXCEPT !.noticed = FALSE]
    /\ IF s = "editor"
       THEN saver' = [saver EXCEPT ![s].phase = "stamp"] /\ UNCHANGED truth
       ELSE /\ saver' = [saver EXCEPT ![s] = Idle]
            /\ truth' = OnTop(live.pending, saver[s].copy)
    /\ UNCHANGED <<playing, written_values>>

\* The edits are in the file: they stop being pending, and the view is what was written.
FlushDone ==
    /\ saver["editor"].phase = "stamp"
    /\ live' = [live EXCEPT !.pending = Blank, !.shown = saver["editor"].copy, !.noticed = TRUE,
                            !.open = live.closing = 0]
    /\ saver' = [saver EXCEPT !["editor"] = Idle]
    /\ UNCHANGED <<options, playing, truth, written_values, overlaps>>

\* The edits stay pending.  A dialog that closes tries once more as the view is dropped.
FlushFails ==
    /\ saver["editor"].phase = "write"
    /\ saver' = [saver EXCEPT !["editor"] = Idle]
    /\ UNCHANGED <<options, playing, truth, written_values>>
    /\ IF live.closing < 2
       THEN UNCHANGED <<live, overlaps>>
       ELSE /\ live' = [live EXCEPT !.open = FALSE, !.pending = Blank]
            /\ overlaps' = overlaps \cup {"unsaved"}

-------------------------------------------------------------------------------
(* The dialog.                                                             *)

\* The Close button, or Escape and Back while no key is being captured.
Close ==
    /\ Frame
    /\ IF live.pending = Blank
       THEN live' = [live EXCEPT !.open = FALSE] /\ UNCHANGED <<saver, overlaps>>
       ELSE live' = [live EXCEPT !.closing = 1] /\ StartFlush
    /\ UNCHANGED <<options, playing, truth, written_values>>

Escape ==
    IF live.capturing = NoKey THEN Close
    ELSE /\ Frame /\ ~live.hidden
         /\ live' = [live EXCEPT !.capturing = NoKey]
         /\ UNCHANGED <<options, saver, playing, truth, written_values, overlaps>>

\* Drop flushes what the closing flush could not.
DropFlush ==
    /\ live.open /\ ~Busy("editor") /\ live.closing = 1
    /\ live' = [live EXCEPT !.closing = 2]
    /\ StartFlush
    /\ UNCHANGED <<options, playing, truth, written_values>>

StartCapture(k) ==
    /\ Frame /\ ~live.hidden /\ live.capturing = NoKey
    /\ live' = [live EXCEPT !.capturing = k]
    /\ UNCHANGED <<options, saver, playing, truth, written_values, overlaps>>

\* The next key or button is the binding, if the row that waits for it is drawn.
PressKey == ~live.hidden /\ live.capturing # NoKey /\ Edit(live.capturing)

\* A search hides the row without ending the capture; another tab ends it.
Search ==
    /\ Frame /\ live.capturing # NoKey
    /\ \/ live' = [live EXCEPT !.hidden = ~live.hidden]
       \/ live' = [live EXCEPT !.capturing = NoKey, !.hidden = FALSE]
    /\ UNCHANGED <<options, saver, playing, truth, written_values, overlaps>>

-------------------------------------------------------------------------------
(* The settings pass, which leaves a running game alone, and the game.     *)

PassReads ==
    /\ ~Busy("pass") /\ ~playing.runs /\ options.whole /\ written_values < MaxValues
    /\ \E k \in Keys :
         saver' = [saver EXCEPT !["pass"] =
                      [phase |-> "write", copy |-> [options.at EXCEPT ![k] = written_values + 1]]]
    /\ written_values' = written_values + 1
    /\ UNCHANGED <<options, live, playing, truth, overlaps>>

PassFails ==
    /\ saver["pass"].phase = "write"
    /\ saver' = [saver EXCEPT !["pass"] = Idle]
    /\ UNCHANGED <<options, live, playing, truth, written_values, overlaps>>

GameStarts ==
    /\ ~playing.runs /\ options.whole
    /\ playing' = [playing EXCEPT !.runs = TRUE, !.copy = options.at]
    /\ UNCHANGED <<options, live, saver, truth, written_values, overlaps>>

\* The game empties the file and writes all its options into it.
GameSaves ==
    /\ playing.runs /\ ~playing.saves /\ written_values < MaxValues
    /\ \E k \in Keys : playing' = [playing EXCEPT !.saves = TRUE, !.copy[k] = written_values + 1]
    /\ written_values' = written_values + 1
    /\ options' = [options EXCEPT !.whole = FALSE]
    /\ live' = [live EXCEPT !.noticed = FALSE]
    /\ overlaps' = overlaps \cup Overlap("game")
    /\ UNCHANGED <<saver, truth>>

\* A file that was renamed over meanwhile keeps what was renamed.
GameSaved ==
    /\ playing.saves
    /\ playing' = [playing EXCEPT !.saves = FALSE, !.runs = FALSE]
    /\ IF options.whole THEN UNCHANGED <<options, live>>
       ELSE /\ options' = [whole |-> TRUE, at |-> playing.copy]
            /\ live' = [live EXCEPT !.noticed = FALSE]
    /\ truth' = OnTop(live.pending, playing.copy)
    /\ overlaps' = overlaps \cup Overlap("game")
    /\ UNCHANGED <<saver, written_values>>

EditorNext ==
    \/ Open \/ SeeChange \/ Reload \/ PollFlush \/ FlushDone \/ FlushFails
    \/ Close \/ Escape \/ DropFlush \/ PressKey \/ Search
    \/ \E k \in Keys : Edit(k) \/ StartCapture(k)
    \/ \E s \in Savers : Write(s)
    \/ PassReads \/ PassFails \/ GameStarts \/ GameSaves \/ GameSaved

EditorSpec == EditorInit /\ [][EditorNext]_editorVars

-------------------------------------------------------------------------------
(* Properties.                                                             *)

AtRest == ~(\E s \in Savers : Busy(s)) /\ ~playing.saves

\* LiveOptions ("Closing the editor must never lose an edit", "without clobbering anything
\* else", "always shows the merged truth"): whenever nobody is writing, the file with the
\* pending edits on top holds what was last written to every key by the user, the game or a
\* pass, and once polled the view shows exactly that.  Excused: writers that overlapped, a
\* file that could not be read (it counts as empty), a write between a flush and its stamp,
\* and a dialog both of whose closing flushes failed.
EditsAreKept ==
    /\ AtRest /\ overlaps = {} => OnTop(live.pending, options.at) = truth
    /\ AtRest /\ overlaps = {} /\ live.open /\ live.noticed => live.shown = truth
\* Nothing is claimed after an overlap.
EditorClaimed == overlaps = {}
=============================================================================
