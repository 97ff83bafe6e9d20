------------------------------- MODULE Frames -------------------------------
(***************************************************************************)
(* Whose frame is env[ep]?  The machine numbers frames by the position     *)
(* they were pushed at and returns to the one before by ep - 1, but frames *)
(* are never popped, so the one before need not be the caller's.  This     *)
(* module runs the machine beside the discipline it stands for: every      *)
(* frame remembers the frame that was current when it was allocated, and   *)
(* every choice point the frame that was current when it was made.         *)
(***************************************************************************)
EXTENDS LamVM

VARIABLES
  current,   \* the frame of the clause that executes, 0 if it has none
  parent,    \* for each frame of env, the one current when it was pushed
  kept       \* for each choice point, the one current when it was made

ghosts    == <<current, parent, kept>>
frameVars == <<vars, ghosts>>

FramesInit == Init /\ current = 0 /\ parent = <<>> /\ kept = <<>>

Restores == (At("RETRY") \/ At("TRUST")) /\ choice # <<>>

FramesNext ==
  /\ Next
  /\ current' = CASE At("ALLOCATE")                     -> Len(env) + 1
                  [] At("DEALLOCATE") /\ current # 0    -> parent[current]
                  [] Restores                           -> kept[Len(kept)]
                  [] OTHER                              -> current
  /\ parent' = IF At("ALLOCATE") THEN Append(parent, current) ELSE parent
  /\ kept' = CASE At("TRY")                         -> Append(kept, current)
               [] At("TRUST") /\ choice # <<>>      -> SubSeq(kept, 1, Len(kept) - 1)
               [] At("CUT")                         -> SubSeq(kept, 1, Len(choice'))
               [] OTHER                             -> kept

FramesSpec == FramesInit /\ [][FramesNext]_frameVars

(***************************************************************************)
(* An instruction that uses a frame uses the frame of its own clause, as   *)
(* long as at most one frame has been pushed on top of it: then env[ep-1]  *)
(* of the code is the current frame.  Two frames on top, whether of two    *)
(* calls that returned or of one that was tried twice, and ep is lowered   *)
(* to a dead frame between them (MCHops).                                  *)
(***************************************************************************)
OwnFrame ==
  /\ At("GET_Y_VAR") \/ At("PUT_Y_VAL") \/ At("DEALLOCATE")
  /\ Len(env) <= current + 1
  => ep = current
=============================================================================
