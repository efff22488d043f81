---------------------------- MODULE MCFreshness -----------------------------
(* Small instances of Freshness for TLC.  One run goes through several        *)
(* scenes: a scene names the keys and the number of workers that take part,   *)
(* and whether writers may overlap passes.                                    *)
EXTENDS Freshness, TLC

CONSTANTS doc, obs, scan, proj,   \* keys, one per writer
          old, new,               \* texts
          w1, w2                  \* workers

MCWriter == doc :> "source" @@ obs :> "history" @@ scan :> "ocr" @@ proj :> "project"

\* One text is split into passages, the other is not.
MCSplit == old :> 2 @@ new :> 1

Scene(keys, workers, serial) == [keys |-> keys, workers |-> workers, serial |-> serial]

OverlapScene == Scene({doc, obs}, 2, FALSE)
OcrScene == Scene({scan, doc}, 1, FALSE)
SerialScene == Scene({doc, obs, scan, proj}, 1, TRUE)
SerialPassesScene == Scene({doc, obs}, 2, TRUE)

Scenes == {OverlapScene, OcrScene, SerialScene, SerialPassesScene}

VARIABLE scene

InScene ==
    /\ \A k \in Keys \ scene.keys : node'[k] = node[k]
    /\ Cardinality({w \in Workers : job'[w] # Idle}) <= scene.workers

NoRow == \A w \in Workers : job[w].kind # "row"

\* No writer and no row overlaps a pass; passes may overlap.
Serial ==
    LET quiet == \A w \in Workers : job[w] = Idle
        begins == \E w \in Workers : job[w] = Idle /\ job'[w] # Idle
    IN  /\ job' = job => quiet
        /\ begins => (quiet \/ (NoRow /\ NoRow'))

MCNext ==
    /\ Next
    /\ scene.serial => Serial
    /\ InScene
    /\ UNCHANGED scene

MCInit == Init /\ scene \in Scenes

MCSpec == MCInit /\ [][MCNext]_<<vars, scene>>

MCFairSpec ==
    /\ MCSpec
    /\ WF_state(BeginSweep)
    /\ \A w \in Workers : WF_state(Continue(w))
    /\ <>[][BeginSweep \/ \E w \in Workers : Continue(w)]_state

RaceSpec == Init /\ scene = Scene({doc}, 1, FALSE) /\ [][MCNext]_<<vars, scene>>

=============================================================================
