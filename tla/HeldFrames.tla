----------------------------- MODULE HeldFrames -----------------------------
(***************************************************************************)
(* Programs that hold on to the frames they received and ask GetDescs for  *)
(* more meanwhile, to keep the Fill ring full: every descriptor they give  *)
(* to Fill is one of GetDescs or of Receive, as the comment of Fill asks,  *)
(* and each is given once.                                                 *)
(***************************************************************************)
EXTENDS XdpSocket

(* xsk.Fill(xsk.GetDescs(n, true)), whatever the program holds *)
FillFreeHolding(n) ==
  /\ ~GetDescsPanics(n, TRUE)
  /\ \E descs \in GetDescs(n, TRUE) : FillCall(descs)
  /\ UNCHANGED rxDescs

HeldSpec == Init /\ [][Next \/ \E n \in Request : FillFreeHolding(n)]_vars
-----------------------------------------------------------------------------
(* "The descriptors can be acquired either by calling the GetDescs()       *)
(* method or by calling Receive() method" (xdp.go:399-400), and those of   *)
(* GetDescs "are not currently in use" (xdp.go:536): a frame that was      *)
(* submitted to be filled is not submitted again before it is received.    *)
FilledOnce ==
  LET submitted == kernelRx \o fillRing
  IN  \A i, j \in 1 .. Len(submitted) :
        FrameOf(submitted[i]) = FrameOf(submitted[j]) => i = j
=============================================================================
