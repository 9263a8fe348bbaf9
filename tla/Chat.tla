-------------------------------- MODULE Chat --------------------------------
(***************************************************************************)
(* What a user of the whole system may rely on, whatever the services      *)
(* between browser and LLM do: each message goes from said to kept to      *)
(* answered, or is refused or lost for good, and a page shows replies only *)
(* to messages of its own browser session that were answered.  An error is *)
(* not the last word on a message: assistant-api may have queued it before *)
(* it failed, and then it is denied, but may still be answered.            *)
(***************************************************************************)
CONSTANTS Messages, Pages, Sessions, NoPage

VARIABLES phase,   \* phase[m]: what has become of message m
          origin,  \* origin[m]: the page m was typed on, or NoPage
          home,    \* home[p]: the session of page p
          seen     \* seen[p]: the messages page p shows a reply to

vars == <<phase, origin, home, seen>>

Init ==
    /\ phase = [m \in Messages |-> "unsaid"]
    /\ origin = [m \in Messages |-> NoPage]
    /\ home \in [Pages -> Sessions]
    /\ seen = [p \in Pages |-> {}]

(* A page may load, clear or miss replies, but shows no others.            *)
PagesShowAnswers ==
    seen' \in [Pages -> SUBSET {m \in Messages : phase'[m] = "answered"}]

OwnSessionOnly ==
    \A p \in Pages : \A m \in seen'[p] : home'[origin'[m]] = home'[p]

Become(m, to) ==
    /\ phase' = [phase EXCEPT ![m] = to]
    /\ UNCHANGED <<origin, home>>

Say(m, p) ==
    /\ phase[m] = "unsaid"
    /\ phase' = [phase EXCEPT ![m] = "said"]
    /\ origin' = [origin EXCEPT ![m] = p]
    /\ UNCHANGED home

Open == {"said", "kept", "denied"}

(* The gateway has stored the message.                                     *)
Keep(m) == phase[m] = "said" /\ Become(m, "kept")

(* The reply is stored.                                                    *)
Answer(m) == phase[m] \in {"kept", "denied"} /\ Become(m, "answered")

(* The browser is told that the message goes nowhere, which is not so,     *)
Deny(m) == phase[m] = "kept" /\ Become(m, "denied")

(* or is so for good.                                                      *)
Refuse(m) == phase[m] \in Open /\ Become(m, "refused")

(* A connection, a page or a process has gone, and messages with it: none  *)
(* is sent again.  With an empty S only the pages change.                  *)
Lose(S) ==
    /\ \A m \in S : phase[m] \in Open
    /\ phase' = [m \in Messages |-> IF m \in S THEN "lost" ELSE phase[m]]
    /\ UNCHANGED <<origin, home>>

Next ==
    /\ \/ \E m \in Messages : Keep(m) \/ Answer(m) \/ Deny(m) \/ Refuse(m)
       \/ \E m \in Messages, p \in Pages : Say(m, p)
       \/ \E S \in SUBSET Messages : Lose(S)
    /\ PagesShowAnswers
    /\ OwnSessionOnly

Spec == Init /\ [][Next]_vars
=============================================================================
