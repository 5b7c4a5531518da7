---------------------------- MODULE MCScheduler ----------------------------
(* Small instances of Scheduler for TLC. *)
EXTENDS Scheduler, TLC

NoteOn(c, n)  == [click |-> c, kind |-> "on", note |-> n, vel |-> 64]
NoteOff(c, n) == [click |-> c, kind |-> "off", note |-> n, vel |-> 0]
Control(n)    == [click |-> 0, kind |-> "control", note |-> n, vel |-> 0]

OneNote == {"p"}

NoteOnMsg == {NoteOn(0, "p")}
AllMsgs   == {NoteOn(0, "p"), NoteOff(0, "p"), Control("p")}

NotePhrase  == {<<NoteOn(0, "p"), NoteOff(1, "p")>>}

\* Three units: when it loops, an event that was shed and the rest of the phrase are
\* in the lists together.
LongPhrase  == <<NoteOn(0, "p"), NoteOff(1, "p"), NoteOn(1, "p")>>
NotePhrases == {LongPhrase, <<>>}

\* Three repetitions of a loop: velocity 64, 16, 4 (which is below 5).
Fade == 25

LoopsOfOne == {[loop |-> 0, fade |-> 0], [loop |-> 1, fade |-> Fade]}

Symmetry ==
    Permutations(EventIds) \cup Permutations(CursorIds) \cup Permutations(Callers)
=============================================================================
