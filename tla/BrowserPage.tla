----------------------------- MODULE BrowserPage ----------------------------
(***************************************************************************)
(* public/app.js, the page of gateway-web in a browser: what each open     *)
(* page shows, its connection label, its spinner with the timer that ends  *)
(* it, and its clear button.  ChatSystem connects the pages to the gateway.*)
(*                                                                         *)
(* shown keeps the replies on a page.  What a user types is shown at once, *)
(* errors are shown as they come; both are left out.                       *)
(***************************************************************************)
CONSTANTS Pages,     \* tabs of a browser
          Messages   \* what users type

VARIABLES conn,            \* conn[p]: whether page p is open, and connected
          shown,           \* shown[p]: the replies on the page
          thinkingMessage, \* thinkingMessage[p]: whether the spinner is shown
          thinkingTimer,   \* thinkingTimer[p]: whether its timeout is set
          clearing         \* clearing[p]: how far a DELETE of page p has come

pageVars == <<conn, shown, thinkingMessage, thinkingTimer, clearing>>
screenVars == <<shown, thinkingMessage, thinkingTimer>>

PageTypeOK ==
    /\ conn \in [Pages -> {"closed", "disconnected", "connected"}]
    /\ shown \in [Pages -> SUBSET Messages]
    /\ thinkingMessage \in [Pages -> BOOLEAN]
    /\ thinkingTimer \in [Pages -> BOOLEAN]
    /\ clearing \in [Pages -> {"no", "sent", "erased"}]

PageInit ==
    /\ conn = [p \in Pages |-> "closed"]
    /\ shown = [p \in Pages |-> {}]
    /\ thinkingMessage = [p \in Pages |-> FALSE]
    /\ thinkingTimer = [p \in Pages |-> FALSE]
    /\ clearing = [p \in Pages |-> "no"]

SetConnectionStatus(P, status) ==
    conn' = [p \in Pages |-> IF p \in P THEN status ELSE conn[p]]

(* The pages of P lose the timer and the spinner.                          *)
ClearThinking(P) ==
    /\ thinkingTimer' = [p \in Pages |-> p \notin P /\ thinkingTimer[p]]
    /\ thinkingMessage' = [p \in Pages |-> p \notin P /\ thinkingMessage[p]]

(* The script starts: the history of the bootstrap is shown.  A page that  *)
(* is connecting is one that is not connected.                             *)
LoadPage(p, history) ==
    /\ SetConnectionStatus({p}, "disconnected")
    /\ shown' = [shown EXCEPT ![p] = history]
    /\ ClearThinking({p})
    /\ clearing' = [clearing EXCEPT ![p] = "no"]

(* assistant.thinking on the pages of P; a running timeout is replaced.    *)
ShowThinking(P) ==
    /\ thinkingMessage' = [p \in Pages |-> p \in P \/ thinkingMessage[p]]
    /\ thinkingTimer' = [p \in Pages |-> p \in P \/ thinkingTimer[p]]
    /\ UNCHANGED <<conn, shown, clearing>>

(* Mutant of ThinkingTimeout: the timer ends, the spinner stays.           *)
ThinkingTimeoutKeeps(p) ==
    /\ thinkingTimer[p]
    /\ thinkingTimer' = [thinkingTimer EXCEPT ![p] = FALSE]
    /\ UNCHANGED <<conn, shown, thinkingMessage, clearing>>

ThinkingTimeout(p) ==
    /\ thinkingTimer[p]
    /\ ClearThinking({p})
    /\ UNCHANGED <<conn, shown, clearing>>

(* assistant.message on the pages of P.                                    *)
ShowMessage(P, m) ==
    /\ ClearThinking(P)
    /\ shown' = [p \in Pages |->
                   IF p \in P THEN shown[p] \cup {m} ELSE shown[p]]
    /\ UNCHANGED <<conn, clearing>>

(* The button is disabled while a DELETE is under way.                     *)
ClickClear(p) ==
    /\ conn[p] # "closed" /\ clearing[p] = "no"
    /\ clearing' = [clearing EXCEPT ![p] = "sent"]
    /\ UNCHANGED <<conn, screenVars>>

(* The answer to the DELETE is 200: whatever is shown by now goes.         *)
ClearMessages(p) ==
    /\ clearing[p] = "erased"
    /\ clearing' = [clearing EXCEPT ![p] = "no"]
    /\ ClearThinking({p})
    /\ shown' = [shown EXCEPT ![p] = {}]
    /\ UNCHANGED conn

(* An error answer, or none: the page stays as it is.                      *)
ClearFails(p) ==
    /\ clearing[p] # "no"
    /\ clearing' = [clearing EXCEPT ![p] = "no"]
    /\ UNCHANGED <<conn, screenVars>>
=============================================================================
