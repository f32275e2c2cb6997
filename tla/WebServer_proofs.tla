-------------------------- MODULE WebServer_proofs --------------------------
EXTENDS WebServer, FiniteSetTheorems, TLAPS

\* A client that sends nothing is told from one that sends a request.
LEMMA NoRequestIsNone == NoRequest \notin Request
BY DEF NoRequest, Request

\* The connections served are finitely many.
LEMMA ServingFinite == IsFiniteSet(Serving)
<1>1. Serving \subseteq Conn
  BY DEF Serving
<1>2. QED
  BY <1>1, WebServerAssumption, FS_Subset

\* One more connection with a thread counts for one, one less too.
LEMMA OneMore ==
  ASSUME NEW c \in Conn, phase[c] \notin Threads, Serving' = Serving \cup {c}
  PROVE  Cardinality(Serving') = Cardinality(Serving) + 1
BY ServingFinite, FS_AddElement DEF Serving

LEMMA OneLess ==
  ASSUME NEW c \in Conn, phase[c] \in Threads, Serving' = Serving \ {c}
  PROVE  Cardinality(Serving') = Cardinality(Serving) - 1
BY ServingFinite, FS_RemoveElement DEF Serving

LEMMA InitInv == Init => IInv
<1> SUFFICES ASSUME Init PROVE IInv
  OBVIOUS
<1> USE WebServerAssumption, NoRequestIsNone
<1>1. TypeOK
  BY DEF Init, TypeOK
<1>2. Serving = {}
  BY DEF Init, Serving, Threads
<1>3. CountsThreads
  BY <1>2, FS_EmptySet DEF Init, CountsThreads
<1>4. AnswerFits
  BY DEF Init, AnswerFits, Handled
<1>5. ASSUME NEW c \in Conn PROVE PhaseFits(c)
  BY DEF Init, PhaseFits
<1>6. QED
  BY <1>1, <1>3, <1>4, <1>5 DEF IInv

\* Every step keeps the types.
LEMMA TypeStep == IInv /\ [Next]_vars => TypeOK'
<1> SUFFICES ASSUME IInv, [Next]_vars PROVE TypeOK'
  OBVIOUS
<1> USE WebServerAssumption, NoRequestIsNone DEF IInv, TypeOK, Threads
<1>1. ASSUME NEW c \in Conn, Connect(c) PROVE TypeOK'
  BY <1>1 DEF Connect
<1>2. ASSUME NEW c \in Conn, Leave(c) PROVE TypeOK'
  BY <1>2 DEF Leave
<1>3. ASSUME NEW c \in Conn, Recv(c) PROVE TypeOK'
  BY <1>3 DEF Recv, Reading, At
<1>4. ASSUME NEW c \in Conn, Eof(c) PROVE TypeOK'
  BY <1>4 DEF Eof, Reply, Reading, At
<1>5. ASSUME NEW c \in Conn, HeadDone(c) PROVE TypeOK'
  BY <1>5 DEF HeadDone, Reply, Goto, At
<1>6. ASSUME NEW c \in Conn, BodyDone(c) PROVE TypeOK'
  BY <1>6 DEF BodyDone, Goto, At
<1>7. ASSUME NEW c \in Conn, Check(c) PROVE TypeOK'
  BY <1>7 DEF Check, Reply, At
<1>8. ASSUME NEW c \in Conn, Close(c) PROVE TypeOK'
  BY <1>8 DEF Close, Goto, At
<1>9. ASSUME NEW c \in Conn, Release(c) PROVE TypeOK'
  <2>1. c \in Serving
    BY <1>9 DEF Release, At, Serving
  <2>2. conns - 1 \in Nat
    BY <2>1, ServingFinite, FS_EmptySet, FS_CardinalityType DEF CountsThreads
  <2>3. QED
    BY <1>9, <2>2 DEF Release, Closed, At
<1>10. ASSUME NEW c \in Conn, Accept(c) PROVE TypeOK'
  BY <1>10 DEF Accept
<1>11. ASSUME NEW c \in Conn, Refuse(c) PROVE TypeOK'
  BY <1>11 DEF Refuse, Closed
<1>12. CASE StopSeen
  BY <1>12 DEF StopSeen
<1>13. CASE AcceptFails
  BY <1>13 DEF AcceptFails
<1>14. CASE Stop
  BY <1>14 DEF Stop
<1>15. CASE Exit
  BY <1>15 DEF Exit
<1>16. CASE UNCHANGED vars
  BY <1>16 DEF vars
<1>17. QED
  BY <1>1, <1>2, <1>3, <1>4, <1>5, <1>6, <1>7, <1>8, <1>9, <1>10, <1>11, <1>12, <1>13, <1>14, <1>15, <1>16
     DEF Next, Client, Work, Run

\* Every step counts its threads.
LEMMA CountStep == IInv /\ [Next]_vars => CountsThreads'
<1> SUFFICES ASSUME IInv, [Next]_vars PROVE CountsThreads'
  OBVIOUS
<1> USE WebServerAssumption DEF IInv, TypeOK
<1> DEFINE Same == Serving' = Serving /\ conns' = conns
<1>a. Same => CountsThreads'
  BY DEF CountsThreads
<1>1. ASSUME NEW c \in Conn, Connect(c) PROVE Same
  BY <1>1 DEF Connect, Serving, Threads
<1>2. ASSUME NEW c \in Conn, Leave(c) PROVE Same
  BY <1>2 DEF Leave, Serving
<1>3. ASSUME NEW c \in Conn, Recv(c) PROVE Same
  BY <1>3 DEF Recv, Serving
<1>4. ASSUME NEW c \in Conn, Eof(c) PROVE Same
  BY <1>4 DEF Eof, Reply, Reading, At, Serving, Threads
<1>5. ASSUME NEW c \in Conn, HeadDone(c) PROVE Same
  BY <1>5 DEF HeadDone, Reply, Goto, At, Serving, Threads
<1>6. ASSUME NEW c \in Conn, BodyDone(c) PROVE Same
  BY <1>6 DEF BodyDone, Goto, At, Serving, Threads
<1>7. ASSUME NEW c \in Conn, Check(c) PROVE Same
  BY <1>7 DEF Check, Reply, At, Serving, Threads
<1>8. ASSUME NEW c \in Conn, Close(c) PROVE Same
  BY <1>8 DEF Close, Goto, At, Serving, Threads
<1>9. ASSUME NEW c \in Conn, Release(c) PROVE CountsThreads'
  <2>1. phase[c] \in Threads /\ Serving' = Serving \ {c}
    BY <1>9 DEF Release, Closed, At, Serving, Threads
  <2>2. Cardinality(Serving') = Cardinality(Serving) - 1
    BY <2>1, OneLess
  <2>3. conns' = conns - 1
    BY <1>9 DEF Release
  <2>4. QED
    BY <2>2, <2>3 DEF CountsThreads
<1>10. ASSUME NEW c \in Conn, Accept(c) PROVE CountsThreads'
  <2>1. phase[c] \notin Threads /\ Serving' = Serving \cup {c}
    BY <1>10 DEF Accept, Serving, Threads
  <2>2. QED
    BY <1>10, <2>1, OneMore DEF Accept, CountsThreads
<1>11. ASSUME NEW c \in Conn, Refuse(c) PROVE Same
  BY <1>11 DEF Refuse, Closed, Serving, Threads
<1>12. CASE StopSeen
  BY <1>12, <1>a DEF StopSeen, Serving
<1>13. CASE AcceptFails
  BY <1>13, <1>a DEF AcceptFails, Serving
<1>14. CASE Stop
  BY <1>14, <1>a DEF Stop, Serving, Threads
<1>15. CASE Exit
  BY <1>15, <1>a DEF Exit, Serving
<1>16. CASE UNCHANGED vars
  BY <1>16, <1>a DEF vars, Serving
<1>17. QED
  BY <1>a, <1>1, <1>2, <1>3, <1>4, <1>5, <1>6, <1>7, <1>8, <1>9, <1>10, <1>11, <1>12, <1>13, <1>14, <1>15, <1>16
     DEF Next, Client, Work, Run

\* What AnswerFits says of one connection.
AnswerOf(c) ==
  /\ Handled(c) => Acceptable(req[c]) /\ BodyRead(c)
  /\ /\ answer[c] # "none" /\ ~left[c]
     /\ Acceptable(req[c]) /\ Comfortable(req[c])
     => Handled(c)

\* A step leaves the connections alone that it is not about.
LEMMA Others ==
  ASSUME IInv, NEW d \in Conn,
         phase'[d] = phase[d], req'[d] = req[d], got'[d] = got[d],
         left'[d] = left[d] \/ left'[d], answer'[d] = answer[d]
  PROVE  PhaseFits(d)' /\ AnswerOf(d)'
BY DEF IInv, AnswerFits, AnswerOf, PhaseFits, Handled, BodyRead, Length

\* A connection that is over satisfies everything.
LEMMA OverFits ==
  ASSUME NEW d \in Conn, phase'[d] = "none", got'[d] = 0, answer'[d] = "none"
  PROVE  PhaseFits(d)' /\ AnswerOf(d)'
BY DEF AnswerOf, PhaseFits, Handled

\* Every step answers a connection with what its request deserves.
LEMMA AnswerStep == IInv /\ [Next]_vars => \A d \in Conn : PhaseFits(d)' /\ AnswerOf(d)'
<1> SUFFICES ASSUME IInv, [Next]_vars, NEW d \in Conn PROVE PhaseFits(d)' /\ AnswerOf(d)'
  OBVIOUS
<1> USE WebServerAssumption
<1> DEFINE Fits == PhaseFits(d)' /\ AnswerOf(d)'
<1>0. PhaseFits(d) /\ AnswerOf(d) /\ TypeOK
  BY DEF IInv, AnswerFits, AnswerOf
<1>r. phase[d] # "none" => req[d] \in Request /\ req[d].head \in Nat /\ req[d].body \in Nat
  BY <1>0 DEF TypeOK, Request
<1>1. ASSUME NEW c \in Conn, Connect(c) PROVE Fits
  <2>1. CASE c = d
    <3>1. req'[d] \in Request /\ phase'[d] = "backlog" /\ got'[d] = 0 /\ answer'[d] = "none"
      BY <1>1, <2>1, <1>0 DEF Connect, TypeOK, PhaseFits
    <3>2. req'[d].head \in Nat /\ req'[d].body \in Nat
      BY <3>1 DEF Request
    <3>3. QED
      BY <3>1, <3>2 DEF PhaseFits, AnswerOf, Handled, Length
  <2>2. CASE c # d
    BY <1>1, <2>2, <1>0, Others DEF Connect, TypeOK
  <2>3. QED
    BY <2>1, <2>2
<1>2. ASSUME NEW c \in Conn, Leave(c) PROVE Fits
  BY <1>2, <1>0, Others DEF Leave, TypeOK
<1>3. ASSUME NEW c \in Conn, Recv(c) PROVE Fits
  <2>1. CASE c = d
    BY <1>3, <2>1, <1>0, <1>r DEF Recv, Reading, At, TypeOK, PhaseFits, AnswerOf, Handled, BodyRead, HeadFound, Length
  <2>2. CASE c # d
    BY <1>3, <2>2, <1>0, Others DEF Recv, TypeOK
  <2>3. QED
    BY <2>1, <2>2
<1>4. ASSUME NEW c \in Conn, Eof(c) PROVE Fits
  <2>1. CASE c = d
    BY <1>4, <2>1, <1>0, <1>r DEF Eof, Reply, Reading, At, TypeOK, PhaseFits, AnswerOf, Handled, Length
  <2>2. CASE c # d
    BY <1>4, <2>2, <1>0, Others DEF Eof, Reply, TypeOK
  <2>3. QED
    BY <2>1, <2>2
<1>5. ASSUME NEW c \in Conn, HeadDone(c) PROVE Fits
  <2>1. CASE c = d
    BY <1>5, <2>1, <1>0, <1>r DEF HeadDone, HeadTooLong, HeadFound, Reply, Goto, At, TypeOK, PhaseFits, AnswerOf,
       Handled, Acceptable, Comfortable, Length
  <2>2. CASE c # d
    BY <1>5, <2>2, <1>0, Others DEF HeadDone, Reply, Goto, TypeOK
  <2>3. QED
    BY <2>1, <2>2
<1>6. ASSUME NEW c \in Conn, BodyDone(c) PROVE Fits
  <2>1. CASE c = d
    BY <1>6, <2>1, <1>0, <1>r DEF BodyDone, Goto, At, TypeOK, PhaseFits, AnswerOf, Handled, BodyRead, Length
  <2>2. CASE c # d
    BY <1>6, <2>2, <1>0, Others DEF BodyDone, Goto, TypeOK
  <2>3. QED
    BY <2>1, <2>2
<1>7. ASSUME NEW c \in Conn, Check(c) PROVE Fits
  <2>1. CASE c = d
    BY <1>7, <2>1, <1>0, <1>r DEF Check, Reply, At, TypeOK, PhaseFits, AnswerOf, Handled, Acceptable, BodyRead, Length
  <2>2. CASE c # d
    BY <1>7, <2>2, <1>0, Others DEF Check, Reply, TypeOK
  <2>3. QED
    BY <2>1, <2>2
<1>8. ASSUME NEW c \in Conn, Close(c) PROVE Fits
  <2>1. CASE c = d
    BY <1>8, <2>1, <1>0, <1>r DEF Close, Goto, At, TypeOK, PhaseFits, AnswerOf, Handled, BodyRead, Length
  <2>2. CASE c # d
    BY <1>8, <2>2, <1>0, Others DEF Close, Goto, TypeOK
  <2>3. QED
    BY <2>1, <2>2
<1>9. ASSUME NEW c \in Conn, Closed(c) PROVE Fits
  <2>1. CASE c = d
    BY <1>9, <2>1, <1>0, OverFits DEF Closed, TypeOK
  <2>2. CASE c # d
    BY <1>9, <2>2, <1>0, Others DEF Closed, TypeOK
  <2>3. QED
    BY <2>1, <2>2
<1>10. ASSUME NEW c \in Conn, Accept(c) PROVE Fits
  <2>1. CASE c = d
    BY <1>10, <2>1, <1>0, <1>r DEF Accept, TypeOK, PhaseFits, AnswerOf, Handled, Length
  <2>2. CASE c # d
    BY <1>10, <2>2, <1>0, Others DEF Accept, TypeOK
  <2>3. QED
    BY <2>1, <2>2
<1>11. CASE StopSeen \/ AcceptFails \/ Exit \/ UNCHANGED vars
  BY <1>11, <1>0, Others DEF StopSeen, AcceptFails, Exit, vars
<1>12. CASE Stop
  <2>1. CASE phase[d] = "backlog"
    BY <1>12, <2>1, <1>0, OverFits DEF Stop, PhaseFits
  <2>2. CASE phase[d] # "backlog"
    BY <1>12, <2>2, <1>0, Others DEF Stop, TypeOK
  <2>3. QED
    BY <2>1, <2>2
<1>13. QED
  BY <1>1, <1>2, <1>3, <1>4, <1>5, <1>6, <1>7, <1>8, <1>9, <1>10, <1>11, <1>12
     DEF Next, Client, Work, Run, Release, Refuse

LEMMA InvStep == IInv /\ [Next]_vars => IInv'
<1> SUFFICES ASSUME IInv, [Next]_vars PROVE IInv'
  OBVIOUS
<1>1. TypeOK' /\ CountsThreads'
  BY TypeStep, CountStep
<1>2. \A d \in Conn : PhaseFits(d)' /\ AnswerOf(d)'
  BY AnswerStep
<1>3. AnswerFits'
  BY <1>2 DEF AnswerFits, AnswerOf
<1>4. QED
  BY <1>1, <1>2, <1>3 DEF IInv

\* Types, for any number of connections and any limits.
THEOREM TypeCorrect == Spec => []TypeOK
<1>1. IInv => TypeOK
  BY DEF IInv
<1>2. QED
  BY <1>1, InitInv, InvStep, PTL DEF Spec

\* conns_ is the number of connection threads and stays within its limit.
THEOREM SlotsAreCounted == Spec => []CountsThreads
<1>1. IInv => CountsThreads
  BY DEF IInv
<1>2. QED
  BY <1>1, InitInv, InvStep, PTL DEF Spec

\* Only acceptable requests that came as a whole are handled, and those that
\* are comfortable always, however they are cut up (server.cpp:111-120).
THEOREM RequestsAreFramed == Spec => []AnswerFits
<1>1. IInv => AnswerFits
  BY DEF IInv
<1>2. QED
  BY <1>1, InitInv, InvStep, PTL DEF Spec
===========================================================================
