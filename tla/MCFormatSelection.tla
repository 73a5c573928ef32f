-------------------------- MODULE MCFormatSelection --------------------------
(* Instances of FormatSelection for TLC.  Sizes are in units that keep the  *)
(* numbers small: framebuffers of 64 and 32 pixels, layers on both sides of *)
(* their quarters.                                                          *)
EXTENDS FormatSelection, TLC

CONSTANTS t1, t2, t3, service, app, app2

Descriptor(f, u, w, h) == [format |-> f, usage |-> u, width |-> w, height |-> h]

Framebuffers == {Descriptor("RGBA_8888", {"HW_FB"}, 8, 8),
                 Descriptor("RGB_565", {"HW_FB", "NO_AFBC"}, 8, 4)}

Layers == {Descriptor("RGBA_8888", {}, w, 4) : w \in {1, 3, 4}}
            \cup {Descriptor("YCrCb_NV12", {}, 4, 4)}

\* One thread in each process; the service alone allocates framebuffers.
OneSaverProc == t1 :> service @@ t2 :> app @@ t3 :> app2
OneSaverRequests == t1 :> Framebuffers \cup Layers @@ t2 :> Layers @@ t3 :> Layers

\* Two binder threads of the service allocate the framebuffers of two displays.
TwoSaversProc == t1 :> service @@ t2 :> service @@ t3 :> app
TwoSaversRequests == t1 :> Framebuffers @@ t2 :> Framebuffers @@ t3 :> Layers
=============================================================================
