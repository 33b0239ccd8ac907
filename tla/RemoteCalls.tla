---------------------------- MODULE RemoteCalls ----------------------------
(***************************************************************************)
(* What a client of the daemon is promised, with no path, no processes     *)
(* starting and no connections: a call is executed at most once, by one    *)
(* server, which executes one call at a time; it ends with a reply or with *)
(* an error, and an error after the execution began means that the server  *)
(* is gone.  The module Lifecycle (internal/client, internal/daemon) is    *)
(* shown to implement it.                                                  *)
(***************************************************************************)
CONSTANTS Clients,    \* 0 is no client
          Servers

VARIABLES asked,      \* the kind of each client's open call; "none"
          told,       \* how its last call ended: "reply" or "error"; "none"
          at,         \* the client whose call a server executes; 0: none
          ended,      \* servers that take no call any more
          sessions    \* servers that have a session or are about to

cvars == <<asked, told, at, ended, sessions>>

Init ==
  /\ asked = [c \in Clients |-> "none"] /\ told = [c \in Clients |-> "none"]
  /\ at = [s \in Servers |-> 0] /\ ended = {} /\ sessions = {}

Send(c, k) ==
  /\ asked[c] = "none"
  /\ asked' = [asked EXCEPT ![c] = k] /\ told' = [told EXCEPT ![c] = "none"]
  /\ UNCHANGED <<at, ended, sessions>>

\* An open call that nobody executes.
Pending(c) == asked[c] # "none" /\ \A s \in Servers : at[s] # c

Take(c, s) ==
  /\ Pending(c) /\ s \notin ended /\ at[s] = 0
  /\ at' = [at EXCEPT ![s] = c]
  /\ UNCHANGED <<asked, told, ended, sessions>>

\* Only a launch makes a session.
Launch(s) ==
  /\ at[s] # 0 /\ asked[at[s]] = "launch"
  /\ sessions' = sessions \cup {s}
  /\ UNCHANGED <<asked, told, at, ended>>

\* A launch fails, the session is stopped, or it was idle for too long.
Lose(s) == /\ sessions' = sessions \ {s}
           /\ UNCHANGED <<asked, told, at, ended>>

\* The calls of S end with r.
Close(S, r) == /\ asked' = [c \in Clients |-> IF c \in S THEN "none" ELSE asked[c]]
               /\ told' = [c \in Clients |-> IF c \in S THEN r ELSE told[c]]

\* "stop" and "down" are answered when the server has no session to work on any
\* more, though what ran in it may not have ended yet; the server that has answered
\* "down" takes no other call.
Reply(s) ==
  /\ at[s] # 0
  /\ Close({at[s]}, "reply") /\ at' = [at EXCEPT ![s] = 0]
  /\ IF asked[at[s]] = "down"
     THEN ended' = ended \cup {s} /\ sessions' = sessions \ {s}
     ELSE UNCHANGED <<ended, sessions>> /\ (asked[at[s]] = "stop" => s \notin sessions)

\* No server could be reached or started: nothing was executed.
Fail(c) == /\ Pending(c)
           /\ Close({c}, "error")
           /\ UNCHANGED <<at, ended, sessions>>

\* A server ends.  The call it executes and some that wait for it get an error.
Ends(s) ==
  /\ \E S \in SUBSET {c \in Clients : Pending(c)} :
       Close(S \cup ({at[s]} \ {0}), "error")
  /\ at' = [at EXCEPT ![s] = 0] /\ ended' = ended \cup {s}
  /\ sessions' \in {sessions, sessions \ {s}}

Next ==
  \/ \E c \in Clients : \/ \E k \in {"launch", "cmd", "stop", "pause", "down"} : Send(c, k)
                        \/ Fail(c)
                        \/ \E s \in Servers : Take(c, s)
  \/ \E s \in Servers : Launch(s) \/ Lose(s) \/ Reply(s) \/ Ends(s)

Spec == Init /\ [][Next]_cvars

-----------------------------------------------------------------------------
(* What a client can conclude from it.                                      *)

\* A call is at one server at most, and nobody executes what has ended.
OneServer ==
  \A s \in Servers : at[s] # 0 =>
    /\ asked[at[s]] # "none"
    /\ \A t \in Servers : at[t] = at[s] => t = s

\* A server lets go of the call it executes only when the call has its reply, or
\* when the server ends.
ReplyOrEnd ==
  [][\A s \in Servers : at[s] # 0 /\ at'[s] # at[s] =>
       /\ asked'[at[s]] = "none"
       /\ told'[at[s]] = "reply" \/ s \in ended']_cvars
=============================================================================
