---------------------------- MODULE FrameStream ----------------------------
(***************************************************************************)
(* What the bridge promises the client that owns the radio: a session is a *)
(* sequence of frames that starts empty and only grows, replies in it are  *)
(* to this client, and the client is given its frames one after the other, *)
(* from the first, whatever is lost or sent again underneath.              *)
(***************************************************************************)
EXTENDS Naturals, Sequences

CONSTANTS Clients, None, Bodies

VARIABLES
    owner,          \* the client the session is with, or None
    produced,       \* the frames of the session
    delivered       \* the ones its client has accepted

stream == <<owner, produced, delivered>>

Init == owner = None /\ produced = <<>> /\ delivered = <<>>

\* A client takes over or has its RST answered.
Begin(c) == owner' = c /\ produced' = <<>> /\ delivered' = <<>>

Produce(b) ==
    /\ owner # None /\ (b.src = "reply" => b.by = owner)
    /\ produced' = Append(produced, b)
    /\ UNCHANGED <<owner, delivered>>

Deliver ==
    /\ owner # None /\ Len(delivered) < Len(produced)
    /\ delivered' = Append(delivered, produced[Len(delivered) + 1])
    /\ UNCHANGED <<owner, produced>>

\* The client resets itself and forgets what it has; its RST is on the way.
Forget == delivered' = <<>> /\ UNCHANGED <<owner, produced>>

\* The client is gone, or more than a window ahead of it was sent.
End == owner' = None /\ produced' = <<>> /\ delivered' = <<>>

Next == (\E c \in Clients : Begin(c)) \/ (\E b \in Bodies : Produce(b)) \/ Deliver \/ Forget \/ End

Spec == Init /\ [][Next]_stream
=============================================================================
