------------------------ MODULE MCTranscriptionQueue ------------------------
(***************************************************************************)
(* Instances of TranscriptionQueue for TLC.  Disturb says how often each   *)
(* disturbance may happen in one behaviour.                                *)
(***************************************************************************)
EXTENDS TranscriptionQueue, TLC

CONSTANTS d1, d2

TwoDrains == {d1, d2}

NoVideo == {}
FirstIsVideo == {1}

Disturb(c, r, t, p, h) ==
    [cancel |-> c, retry |-> r, timeout |-> t, death |-> p, clear |-> h]

CancelOnce    == {Disturb(1, 0, 0, 0, 0)}
TimeoutOnce   == {Disturb(0, 0, 1, 0, 0)}
RetryOnce     == {Disturb(0, 1, 0, 0, 0)}
StopAndClear  == {Disturb(0, 0, 1, 0, 1)}
RetryAndDeath == {Disturb(0, 1, 0, 1, 0)}

\* Any two of a cancel, a timeout and a death, in either order.
TwoOfThree ==
    {Disturb(1, 0, 1, 0, 0), Disturb(1, 0, 0, 1, 0), Disturb(0, 0, 1, 1, 0)}

DrainSymmetry == Permutations(TwoDrains)
=============================================================================
