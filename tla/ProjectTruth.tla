----------------------------- MODULE ProjectTruth -----------------------------
(* What a Project bundle promises to everyone who authors it: an append-only  *)
(* log of commands, each committed at most once and never taken back, not     *)
(* even by a crash; a command is acknowledged only when it is in the log.     *)
EXTENDS Naturals, Sequences

CONSTANT Command                \* command identities

VARIABLES created,              \* has the Project been created?
          log,                  \* the committed commands, in revision order
          acknowledged          \* commands some caller was told are committed

avars == <<created, log, acknowledged>>

InLog(c) == \E i \in DOMAIN log : log[i] = c

AInit == created = FALSE /\ log = <<>> /\ acknowledged = {}

ACreate == /\ ~created
           /\ created' = TRUE
           /\ UNCHANGED <<log, acknowledged>>

(* A commit, acknowledged at once or not (an ambiguous failure).              *)
ACommit == /\ created
           /\ \E c \in Command :
                 /\ ~InLog(c)
                 /\ log' = Append(log, c)
                 /\ acknowledged' \in {acknowledged, acknowledged \union {c}}
           /\ UNCHANGED created

(* A retry of a committed command is acknowledged without a second commit.    *)
AReplay == /\ \E c \in Command : InLog(c) /\ acknowledged' = acknowledged \union {c}
           /\ UNCHANGED <<created, log>>

ANext == ACreate \/ ACommit \/ AReplay

ASpec == AInit /\ [][ANext]_avars
==============================================================================
