----------------------------- MODULE MCCatTasks -----------------------------
(* Small instances of CatTasks for TLC.                                    *)
EXTENDS CatTasks

Cat(p, r, v) == [prefix |-> p, reg |-> r, val |-> v]

MCPrefix   == {"FA", "TX", "RX"}
MCValue    == {0, 1}

\* Two tunes of the VFO, which IF; reports; the attenuator, an optional
\* register, changes at the panel.
MCRegister == {"vfo", "att"}
MCCore     == {"vfo"}
MCCommands == {Cat("FA", "vfo", 0), Cat("FA", "vfo", 1)}

\* Push-to-talk, which is two prefixes for one register, and a tune.
PttRegister == {"vfo", "ptt"}
PttCommands == {Cat("TX", "ptt", 1), Cat("RX", "ptt", 0), Cat("FA", "vfo", 1)}
=============================================================================
