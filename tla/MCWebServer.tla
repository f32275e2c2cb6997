---------------------------- MODULE MCWebServer ----------------------------
(* A client with every kind of request beside others that poll. *)
EXTENDS WebServer

CONSTANTS c1, c2, c3

Ask(head, body) ==
  [head |-> head, body |-> body, line |-> "ok", asset |-> FALSE, get |-> body = 0,
   host |-> TRUE, token |-> TRUE]

MCRequests ==
  [c \in Conn |->
     IF c # c1 THEN {Ask(1, 1)}
     ELSE {Ask(h, b) : h \in 3..6, b \in 0..3}
          \cup {[Ask(2, 1) EXCEPT !.line = l] : l \in {"malformed", "method"}}
          \cup {[Ask(2, 0) EXCEPT !.host = h, !.token = t, !.asset = a] :
                  h \in BOOLEAN, t \in BOOLEAN, a \in BOOLEAN}
          \cup {[Ask(2, 1) EXCEPT !.asset = TRUE, !.token = FALSE]}]
===========================================================================
