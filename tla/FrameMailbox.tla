----------------------------- MODULE FrameMailbox -----------------------------
(***************************************************************************)
(* What the frame ring promises its two users, with no slots and no races: *)
(* a mailbox of numbered frames that never makes the writer wait.  When it *)
(* is full the oldest frame makes room; the reader takes frames out, each  *)
(* at most once; and frames are thrown away wholesale only while the       *)
(* mailbox is shut, which is how a rebuild of the textures looks.          *)
(***************************************************************************)
EXTENDS Naturals, FiniteSets

CONSTANT Capacity

VARIABLES
  last,   \* sequence of the newest frame ever published
  avail,  \* frames the reader may take
  held,   \* frames the reader has taken and not returned
  open    \* frames can be published

mailboxVars == <<last, avail, held, open>>

MailboxInit == last = 0 /\ avail = {} /\ held = {} /\ open = TRUE

Publish ==
  /\ open
  /\ Cardinality(avail) < Capacity
  /\ last' = last + 1
  /\ avail' = avail \cup {last'}
  /\ UNCHANGED <<held, open>>

(* Room is made for a new frame, which may yet come to nothing. *)
DropOldest ==
  /\ open
  /\ \E s \in avail : (\A t \in avail : s <= t) /\ avail' = avail \ {s}
  /\ UNCHANGED <<last, held, open>>

Take ==
  /\ \E s \in avail : avail' = avail \ {s} /\ held' = held \cup {s}
  /\ UNCHANGED <<last, open>>

GiveBack ==
  /\ \E s \in held : held' = held \ {s}
  /\ UNCHANGED <<last, avail, open>>

Shut ==
  /\ open /\ open' = FALSE
  /\ UNCHANGED <<last, avail, held>>

Discard ==
  /\ ~open
  /\ \E s \in avail : avail' = avail \ {s}
  /\ UNCHANGED <<last, held, open>>

(* The mailbox is empty when it opens again. *)
Reopen ==
  /\ ~open /\ avail = {} /\ open' = TRUE
  /\ UNCHANGED <<last, avail, held>>

MailboxNext ==
  \/ Publish \/ DropOldest \/ Take \/ GiveBack \/ Shut \/ Discard \/ Reopen

Spec == MailboxInit /\ [][MailboxNext]_mailboxVars
=============================================================================
