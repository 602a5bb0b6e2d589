---------------------------- MODULE ClientProofs ----------------------------
(***************************************************************************)
(* Theorems about the two clients of the store, for any workers, jobs,     *)
(* transports, requests and numbers of faults: Session, the WebSocket      *)
(* transport, and Worker, the worker SDK.  The two modules share nothing,  *)
(* and neither do their proofs.                                            *)
(***************************************************************************)
EXTENDS Session, Worker, JobQueueProofs

(***************************************************************************)
(* Session.                                                                *)
(***************************************************************************)

(***************************************************************************)
(* A request is made once, and is then in at most one of three places: the *)
(* client's buffer, on its way to the server, or with one route handler.   *)
(* Each place hands it on to the next and none gets it back, so it runs at *)
(* most once; the answer to a success says that it has run.                *)
(***************************************************************************)
Outcomes == {"none", "waiting", "resolved", "failed", "timeout", "lost", "closed", "broken"}

Links == {"connecting", "open", "waiting", "closed"}

SessionTypes ==
    /\ outcome \in [Requests -> Outcomes]
    /\ pending \subseteq Requests
    /\ buffer \in Seq(Requests)
    /\ link \in Links
    /\ toServer \in Seq(Requests)
    /\ toClient \in Seq([req : Requests, ok : BOOLEAN])
    /\ serving \subseteq [req : Requests, conn : Nat, done : BOOLEAN]
    /\ executed \in [Requests -> Nat]
    /\ drops \in Nat

\* Nothing has run r, and no handler is about to.
Untried(r) == executed[r] = 0 /\ \A s \in serving : s.req # r

\* Where requests are, each in one place.
Places ==
    /\ IsInjective(buffer) /\ IsInjective(toServer)
    /\ ToSet(buffer) \cap ToSet(toServer) = {}
    /\ \A r \in ToSet(buffer) \cup ToSet(toServer) : Untried(r)
    /\ \A r \in Requests : outcome[r] = "none" =>
         r \notin ToSet(buffer) \cup ToSet(toServer) /\ Untried(r)
    /\ \A s, u \in serving : s.req = u.req => s = u

\* What handlers and answers say of the runs.
Runs ==
    /\ \A r \in Requests : executed[r] <= 1
    /\ \A s \in serving : executed[s.req] = IF s.done THEN 1 ELSE 0
    /\ \A a \in ToSet(toClient) : a.ok => executed[a.req] = 1
    /\ \A r \in Requests : outcome[r] \in {"resolved", "broken"} => executed[r] = 1

SessionInv == SessionTypes /\ WaitingTracked /\ Places /\ Runs

-----------------------------------------------------------------------------
\* An element that is appended is the last.
LEMMA AppendMeans ==
    ASSUME NEW S, NEW s \in Seq(S), NEW e \in S
    PROVE  /\ Append(s, e) \in Seq(S)
           /\ ToSet(Append(s, e)) = ToSet(s) \cup {e}
           /\ IsInjective(s) /\ e \notin ToSet(s) => IsInjective(Append(s, e))
<1> DEFINE a == Append(s, e)
<1>1. /\ a \in Seq(S) /\ Len(a) = Len(s) + 1 /\ Len(s) \in Nat
      /\ \A i \in 1..Len(s) : a[i] = s[i]
      /\ a[Len(s) + 1] = e
  BY AppendProperties, LenProperties
<1> HIDE DEF a
<1>2. DOMAIN a = 1..(Len(s) + 1) /\ DOMAIN s = 1..Len(s)
  BY <1>1, LenProperties
<1>3. IsInjective(s) /\ e \notin ToSet(s) => IsInjective(a)
  BY <1>1, <1>2 DEF IsInjective, ToSet
<1>4. ASSUME NEW v \in ToSet(a) PROVE v \in ToSet(s) \cup {e}
  <2>1. PICK i \in DOMAIN a : v = a[i]
    BY DEF ToSet
  <2>2. i \in 1..Len(s) \/ i = Len(s) + 1
    BY <1>1, <1>2
  <2> QED BY <1>1, <1>2, <2>1, <2>2 DEF ToSet
<1>5. ASSUME NEW v \in ToSet(s) PROVE v \in ToSet(a)
  <2>1. PICK i \in DOMAIN s : v = s[i]
    BY DEF ToSet
  <2>2. i \in DOMAIN a /\ a[i] = v
    BY <1>1, <1>2, <2>1
  <2> QED BY <2>2 DEF ToSet
<1>6. e \in ToSet(a)
  <2>1. Len(s) + 1 \in DOMAIN a
    BY <1>1, <1>2
  <2> QED BY <1>1, <2>1 DEF ToSet
<1> QED BY <1>1, <1>3, <1>4, <1>5, <1>6 DEF a

\* What is left when the first element is taken.
LEMMA TailMeans ==
    ASSUME NEW S, NEW s \in Seq(S), s # <<>>
    PROVE  /\ Head(s) \in S /\ Tail(s) \in Seq(S)
           /\ Head(s) \in ToSet(s)
           /\ ToSet(Tail(s)) \subseteq ToSet(s)
           /\ IsInjective(s) => IsInjective(Tail(s)) /\ Head(s) \notin ToSet(Tail(s))
<1> DEFINE t == Tail(s)
<1>1. /\ Head(s) = s[1] /\ Head(s) \in S
      /\ t \in Seq(S) /\ Len(t) = Len(s) - 1
      /\ \A i \in 1..Len(t) : t[i] = s[i + 1]
  BY HeadTailProperties
<1>2. Len(s) \in Nat /\ Len(s) > 0 /\ DOMAIN s = 1..Len(s)
  BY LenProperties, EmptySeq
<1> HIDE DEF t
<1>3. DOMAIN t = 1..(Len(s) - 1)
  BY <1>1, <1>2, LenProperties
<1>4. \A i \in DOMAIN t : i + 1 \in DOMAIN s /\ i + 1 # 1 /\ t[i] = s[i + 1]
  BY <1>1, <1>2, <1>3
<1>5. 1 \in DOMAIN s
  BY <1>2
<1>6. ToSet(t) \subseteq ToSet(s) /\ Head(s) \in ToSet(s)
  BY <1>1, <1>4, <1>5 DEF ToSet
<1>7. ASSUME IsInjective(s) PROVE IsInjective(t) /\ Head(s) \notin ToSet(t)
  <2>1. Head(s) \notin ToSet(t)
    BY <1>1, <1>4, <1>5, <1>7 DEF ToSet, IsInjective
  <2>2. ASSUME NEW x \in DOMAIN t, NEW y \in DOMAIN t, t[x] = t[y] PROVE x = y
    <3>1. x + 1 = y + 1
      BY <1>4, <1>7, <2>2 DEF IsInjective
    <3> QED BY <1>2, <1>3, <3>1
  <2> QED BY <2>1, <2>2 DEF IsInjective
<1> QED BY <1>1, <1>6, <1>7 DEF t

LEMMA EmptyMeans == \A S : <<>> \in Seq(S) /\ ToSet(<<>>) = {} /\ IsInjective(<<>>)
BY DEF ToSet, IsInjective

\* A sequence with nothing in it is empty.
LEMMA NotEmptyMeans ==
    ASSUME NEW S, NEW s \in Seq(S) PROVE s # <<>> <=> ToSet(s) # {}
<1>1. CASE s = <<>>
  BY <1>1 DEF ToSet
<1>2. CASE s # <<>>
  BY <1>2, TailMeans
<1> QED BY <1>1, <1>2

\* What a sequence over S holds is in S.
LEMMA ToSetIn == ASSUME NEW S, NEW s \in Seq(S) PROVE ToSet(s) \subseteq S
<1>1. \A i \in DOMAIN s : s[i] \in S
  BY LenProperties, ElementOfSeq
<1> QED BY <1>1 DEF ToSet

-----------------------------------------------------------------------------
LEMMA SessionStarts == InitSession => SessionInv
<1> SUFFICES ASSUME InitSession PROVE SessionInv
  OBVIOUS
<1>1. SessionTypes
  BY DEF InitSession, SessionTypes, Outcomes, Links
<1>2. WaitingTracked
  BY EmptyMeans DEF InitSession, WaitingTracked, Waiting
<1>3. Places /\ Runs
  BY EmptyMeans DEF InitSession, Places, Runs, Untried
<1> QED BY <1>1, <1>2, <1>3 DEF SessionInv

\* The types of the variables one by one.
LEMMA SettleMeans ==
    ASSUME outcome \in [Requests -> Outcomes], NEW rs, NEW how \in Outcomes, Settle(rs, how)
    PROVE  /\ outcome' \in [Requests -> Outcomes]
           /\ \A r \in Requests : outcome'[r] = IF r \in rs THEN how ELSE outcome[r]
BY DEF Settle

\* request() and pipeline().
LEMMA RequestStep == ASSUME SessionInv, NEW r \in Requests, Request(r) PROVE SessionInv'
<1>a. SessionTypes /\ WaitingTracked /\ Places /\ Runs
  BY DEF SessionInv
<1>1. /\ outcome[r] = "none" /\ link # "closed"
      /\ outcome' \in [Requests -> Outcomes]
      /\ \A q \in Requests : outcome'[q] = IF q \in {r} THEN "waiting" ELSE outcome[q]
      /\ UNCHANGED <<link, toClient, serving, executed, drops>>
  BY <1>a, SettleMeans DEF Request, SessionTypes, Outcomes, server
<1>2. Waiting' = Waiting \cup {r}
  BY <1>1 DEF Waiting
<1>3. r \notin ToSet(buffer) \cup ToSet(toServer) /\ Untried(r) /\ r \notin pending
  BY <1>1, <1>a DEF Places, WaitingTracked, Waiting
<1>4. Runs'
  BY <1>1, <1>a DEF Runs
<1>5. CASE link = "open"
  <2>1. pending' = pending \cup {r} /\ toServer' = Append(toServer, r) /\ buffer' = buffer
    BY <1>5 DEF Request
  <2>2. /\ toServer' \in Seq(Requests) /\ ToSet(toServer') = ToSet(toServer) \cup {r}
        /\ IsInjective(toServer')
    BY <1>3, <1>a, <2>1, AppendMeans DEF SessionTypes, Places
  <2>3. SessionTypes'
    BY <1>1, <1>a, <2>1, <2>2 DEF SessionTypes
  <2>4. WaitingTracked'
    BY <1>1, <1>2, <1>3, <1>5, <1>a, <2>1 DEF WaitingTracked
  <2>5. Places'
    BY <1>1, <1>3, <1>a, <2>1, <2>2 DEF Places, Untried
  <2> QED BY <1>4, <2>3, <2>4, <2>5 DEF SessionInv
<1>6. CASE link # "open"
  <2>1. pending' = pending /\ toServer' = toServer /\ buffer' = Append(buffer, r)
    BY <1>6 DEF Request
  <2>2. /\ buffer' \in Seq(Requests) /\ ToSet(buffer') = ToSet(buffer) \cup {r}
        /\ IsInjective(buffer')
    BY <1>3, <1>a, <2>1, AppendMeans DEF SessionTypes, Places
  <2>3. SessionTypes'
    BY <1>1, <1>a, <2>1, <2>2 DEF SessionTypes
  <2>4. WaitingTracked'
    BY <1>1, <1>2, <1>3, <1>6, <1>a, <2>1, <2>2 DEF WaitingTracked, SessionTypes, Links
  <2>5. Places'
    BY <1>1, <1>3, <1>a, <2>1, <2>2 DEF Places, Untried
  <2> QED BY <1>4, <2>3, <2>4, <2>5 DEF SessionInv
<1> QED BY <1>5, <1>6

\* A step after which some waiting promises have settled otherwise than with an
\* answer, and the places hold no more than before.
LEMMA SettledStep ==
    ASSUME SessionInv, NEW rs, NEW how \in Outcomes \ {"none", "waiting"}, Settle(rs, how),
           SessionTypes', rs \subseteq Requests,
           how \in {"resolved", "broken"} => \A r \in rs : executed[r] = 1,
           Waiting \ rs = pending' \cup ToSet(buffer'),
           pending' \cap ToSet(buffer') = {},
           pending' # {} => link' = "open",
           buffer' # <<>> => link' \in {"connecting", "waiting"},
           IsInjective(buffer'), IsInjective(toServer'),
           ToSet(buffer') \subseteq ToSet(buffer),
           ToSet(toServer') \subseteq ToSet(toServer),
           ToSet(toClient') \subseteq ToSet(toClient),
           UNCHANGED server
    PROVE  SessionInv'
<1>a. SessionTypes /\ WaitingTracked /\ Places /\ Runs
  BY DEF SessionInv
<1>1. /\ \A r \in Requests : outcome'[r] = IF r \in rs THEN how ELSE outcome[r]
      /\ serving' = serving /\ executed' = executed
  BY <1>a, SettleMeans DEF SessionTypes, server
<1>2. Waiting' = Waiting \ rs
  BY <1>1 DEF Waiting
<1>3. WaitingTracked'
  BY <1>2 DEF WaitingTracked
<1>4. Places'
  BY <1>1, <1>a DEF Places, Untried
<1>5. Runs'
  BY <1>1, <1>a DEF Runs
<1> QED BY <1>3, <1>4, <1>5 DEF SessionInv

LEMMA RequestClosedStep ==
    ASSUME SessionInv, NEW r \in Requests, RequestClosed(r) PROVE SessionInv'
<1>a. SessionTypes /\ WaitingTracked /\ Places /\ Runs
  BY DEF SessionInv
<1>1. /\ outcome[r] = "none" /\ Settle({r}, "closed") /\ UNCHANGED server
      /\ UNCHANGED <<pending, buffer, link, toServer, toClient, drops, serving, executed>>
  BY DEF RequestClosed, server
<1>2. outcome' \in [Requests -> Outcomes]
  BY <1>a, <1>1, SettleMeans DEF SessionTypes, Outcomes
<1>3. SessionTypes'
  BY <1>a, <1>1, <1>2 DEF SessionTypes
<1>4. Waiting \ {r} = Waiting
  BY <1>1 DEF Waiting
<1> QED BY <1>a, <1>1, <1>3, <1>4, SettledStep DEF WaitingTracked, Places, Outcomes

\* close() and a lost connection.
LEMMA CloseStep == ASSUME SessionInv, CloseTransport PROVE SessionInv'
<1>a. SessionTypes /\ WaitingTracked /\ Places /\ Runs
  BY DEF SessionInv
<1> DEFINE rs == pending \cup ToSet(buffer)
<1>1. /\ link' = "closed" /\ Settle(rs, "closed") /\ UNCHANGED server
      /\ pending' = {} /\ buffer' = <<>> /\ toClient' = <<>>
      /\ UNCHANGED <<toServer, drops, serving, executed>>
  BY DEF CloseTransport, server
<1>2. outcome' \in [Requests -> Outcomes]
  BY <1>a, <1>1, SettleMeans DEF SessionTypes, Outcomes
<1>3. SessionTypes'
  BY <1>a, <1>1, <1>2, EmptyMeans DEF SessionTypes, Links
<1>4. Waiting \ rs = {} /\ rs \subseteq Requests
  BY <1>a DEF WaitingTracked, Waiting
<1> HIDE DEF rs
<1> QED BY <1>a, <1>1, <1>3, <1>4, EmptyMeans, SettledStep DEF Places, Outcomes

LEMMA DropsStep == ASSUME SessionInv, Drops PROVE SessionInv'
<1>a. SessionTypes /\ WaitingTracked /\ Places /\ Runs
  BY DEF SessionInv
<1>1. /\ link' = "waiting" /\ Settle(pending, "lost") /\ UNCHANGED server
      /\ pending' = {} /\ buffer' = buffer /\ toClient' = <<>> /\ toServer' = <<>>
      /\ drops' = drops + 1 /\ UNCHANGED <<serving, executed>>
  BY DEF Drops, Disconnect, server
<1>2. outcome' \in [Requests -> Outcomes]
  BY <1>a, <1>1, SettleMeans DEF SessionTypes, Outcomes
<1>3. SessionTypes'
  BY <1>a, <1>1, <1>2, EmptyMeans DEF SessionTypes, Links
<1>4. Waiting \ pending = ToSet(buffer) /\ pending \subseteq Requests
  BY <1>a DEF WaitingTracked, SessionTypes
<1> QED BY <1>a, <1>1, <1>3, <1>4, EmptyMeans, SettledStep DEF Places, Outcomes

LEMMA TimesOutStep == ASSUME SessionInv, NEW r \in Requests, TimesOut(r) PROVE SessionInv'
<1>a. SessionTypes /\ WaitingTracked /\ Places /\ Runs
  BY DEF SessionInv
<1>1. /\ r \in pending /\ pending' = pending \ {r} /\ Settle({r}, "timeout")
      /\ UNCHANGED server
      /\ UNCHANGED <<buffer, link, toServer, toClient, drops, serving, executed>>
  BY DEF TimesOut, server
<1>2. outcome' \in [Requests -> Outcomes]
  BY <1>a, <1>1, SettleMeans DEF SessionTypes, Outcomes
<1>3. SessionTypes'
  BY <1>a, <1>1, <1>2 DEF SessionTypes
<1>4. Waiting \ {r} = pending' \cup ToSet(buffer)
  BY <1>a, <1>1 DEF WaitingTracked
<1> QED BY <1>a, <1>1, <1>3, <1>4, SettledStep DEF WaitingTracked, Places, Outcomes

\* An answer arrives.
LEMMA ClientReceivesStep == ASSUME SessionInv, ClientReceives PROVE SessionInv'
<1>a. SessionTypes /\ WaitingTracked /\ Places /\ Runs
  BY DEF SessionInv
<1> DEFINE answer == Head(toClient)
           rs == {answer.req} \cap pending
           how == HowSettled(answer)
<1>1. /\ answer \in [req : Requests, ok : BOOLEAN] /\ answer \in ToSet(toClient)
      /\ Tail(toClient) \in Seq([req : Requests, ok : BOOLEAN])
      /\ ToSet(Tail(toClient)) \subseteq ToSet(toClient)
  BY <1>a, TailMeans DEF ClientReceives, SessionTypes
<1>2. /\ toClient' = Tail(toClient)
      /\ UNCHANGED <<buffer, link, toServer, drops, serving, executed>> /\ UNCHANGED server
  BY DEF ClientReceives, server
<1>3. how \in Outcomes \ {"none", "waiting"}
  BY DEF HowSettled, Outcomes
<1>4. Settle(rs, how) /\ pending' = pending \ rs
  <2>1. CASE answer.req \in pending
    BY <2>1 DEF ClientReceives
  <2>2. CASE answer.req \notin pending
    <3>1. pending' = pending /\ outcome' = outcome
      BY <2>2 DEF ClientReceives
    <3>2. outcome = [r \in Requests |-> outcome[r]] /\ rs = {}
      BY <1>a, <2>2 DEF SessionTypes
    <3> HIDE DEF rs, how
    <3> QED BY <3>1, <3>2 DEF Settle
  <2> QED BY <2>1, <2>2
<1>5. how \in {"resolved", "broken"} => \A r \in rs : executed[r] = 1
  BY <1>1, <1>a DEF HowSettled, Runs
<1>6. rs \subseteq pending /\ rs \subseteq Requests
  BY <1>a DEF SessionTypes
<1> HIDE DEF rs, how, answer
<1>7. outcome' \in [Requests -> Outcomes]
  BY <1>a, <1>3, <1>4, SettleMeans DEF SessionTypes
<1>8. SessionTypes'
  BY <1>a, <1>1, <1>2, <1>4, <1>7 DEF SessionTypes
<1>9. Waiting \ rs = pending' \cup ToSet(buffer)
  BY <1>a, <1>4, <1>6 DEF WaitingTracked
<1> QED BY <1>a, <1>1, <1>2, <1>3, <1>4, <1>5, <1>6, <1>8, <1>9, SettledStep
        DEF WaitingTracked, Places

-----------------------------------------------------------------------------
\* replayBuffer(): what was buffered is on its way.
LEMMA OpensStep == ASSUME SessionInv, Opens PROVE SessionInv'
<1>a. SessionTypes /\ WaitingTracked /\ Places /\ Runs
  BY DEF SessionInv
<1>1. /\ link' = "open" /\ pending' = pending \cup ToSet(buffer)
      /\ toServer' = buffer /\ toClient' = <<>> /\ buffer' = <<>>
      /\ UNCHANGED <<outcome, serving, executed, drops>>
  BY DEF Opens, server
<1>2. ToSet(buffer) \subseteq Requests
  BY <1>a DEF WaitingTracked, Waiting
<1>3. SessionTypes'
  BY <1>a, <1>1, <1>2, EmptyMeans DEF SessionTypes, Links
<1>4. WaitingTracked'
  BY <1>a, <1>1, EmptyMeans DEF WaitingTracked, Waiting
<1>5. Places' /\ Runs'
  BY <1>a, <1>1, EmptyMeans DEF Places, Runs, Untried
<1> QED BY <1>3, <1>4, <1>5 DEF SessionInv

LEMMA ReconnectsStep == ASSUME SessionInv, Reconnects PROVE SessionInv'
<1>a. SessionTypes /\ WaitingTracked /\ Places /\ Runs
  BY DEF SessionInv
<1>1. /\ link = "waiting" /\ link' = "connecting"
      /\ UNCHANGED <<outcome, pending, buffer, toServer, toClient, serving, executed, drops>>
  BY DEF Reconnects, server
<1> QED BY <1>a, <1>1 DEF SessionInv, SessionTypes, WaitingTracked, Waiting, Places,
                          Runs, Untried, Links

\* A frame leaves the connection for a handler of its own.
LEMMA ReceivesStep == ASSUME SessionInv, Receives PROVE SessionInv'
<1>a. SessionTypes /\ WaitingTracked /\ Places /\ Runs
  BY DEF SessionInv
<1> DEFINE r == Head(toServer)
           s == [req |-> r, conn |-> drops, done |-> FALSE]
<1>1. /\ r \in Requests /\ Tail(toServer) \in Seq(Requests) /\ r \in ToSet(toServer)
      /\ ToSet(Tail(toServer)) \subseteq ToSet(toServer)
      /\ IsInjective(Tail(toServer)) /\ r \notin ToSet(Tail(toServer))
  BY <1>a, TailMeans DEF Receives, SessionTypes, Places
<1>2. /\ serving' = serving \cup {s} /\ toServer' = Tail(toServer)
      /\ UNCHANGED <<outcome, pending, buffer, link, toClient, executed, drops>>
  BY DEF Receives, client
<1>3. /\ s \in [req : Requests, conn : Nat, done : BOOLEAN]
      /\ s.req = r /\ s.done = FALSE
  BY <1>1, <1>a DEF SessionTypes
<1>4. Untried(r) /\ r \notin ToSet(buffer) /\ outcome[r] # "none"
  BY <1>1, <1>a DEF Places
<1> HIDE DEF s, r
<1>5. SessionTypes'
  BY <1>a, <1>1, <1>2, <1>3 DEF SessionTypes
<1>6. WaitingTracked'
  BY <1>a, <1>2 DEF WaitingTracked, Waiting
<1>7. Places'
  BY <1>a, <1>1, <1>2, <1>3, <1>4 DEF Places, Untried
<1>8. Runs'
  BY <1>a, <1>2, <1>3, <1>4 DEF Runs, Untried
<1> QED BY <1>5, <1>6, <1>7, <1>8 DEF SessionInv

\* The route takes effect: for the first time, and its handler knows.
LEMMA ExecutesStep == ASSUME SessionInv, NEW s \in serving, Executes(s) PROVE SessionInv'
<1>a. SessionTypes /\ WaitingTracked /\ Places /\ Runs
  BY DEF SessionInv
<1> DEFINE d == [s EXCEPT !.done = TRUE]
<1>1. /\ ~s.done /\ serving' = (serving \ {s}) \cup {d}
      /\ executed' = [executed EXCEPT ![s.req] = @ + 1]
      /\ UNCHANGED <<outcome, pending, buffer, link, toServer, toClient, drops>>
  BY DEF Executes, client
<1>2. /\ s.req \in Requests /\ d.req = s.req /\ d.done = TRUE
      /\ d \in [req : Requests, conn : Nat, done : BOOLEAN]
  BY <1>a DEF SessionTypes
<1> HIDE DEF d
<1>3. executed[s.req] = 0 /\ executed \in [Requests -> Nat]
  BY <1>a, <1>1 DEF Runs, SessionTypes
<1>4. \A r \in Requests : executed'[r] = IF r = s.req THEN 1 ELSE executed[r]
  BY <1>1, <1>2, <1>3
<1>5. \A u \in serving' : (u = d \/ (u \in serving /\ u.req # s.req)) /\ u.req \in Requests
  BY <1>a, <1>1, <1>2 DEF Places, SessionTypes
<1>6. SessionTypes'
  BY <1>a, <1>1, <1>2, <1>3 DEF SessionTypes
<1>7. WaitingTracked'
  BY <1>a, <1>1 DEF WaitingTracked, Waiting
<1>8. \A r \in Requests : r # s.req /\ Untried(r) => Untried(r)'
  BY <1>2, <1>4, <1>5 DEF Untried
<1>9. /\ s.req \notin ToSet(buffer) \cup ToSet(toServer) /\ outcome[s.req] # "none"
      /\ ToSet(buffer) \cup ToSet(toServer) \subseteq Requests
  <2>1. buffer \in Seq(Requests) /\ toServer \in Seq(Requests)
    BY <1>a DEF SessionTypes
  <2>2. ToSet(buffer) \subseteq Requests /\ ToSet(toServer) \subseteq Requests
    BY <2>1, ToSetIn
  <2>3. \E u \in serving : u.req = s.req
    OBVIOUS
  <2> QED BY <1>2, <1>a, <2>2, <2>3 DEF Places, Untried
<1>10. Places'
  BY <1>a, <1>1, <1>2, <1>5, <1>8, <1>9 DEF Places
<1>11. Runs'
  <2>1. \A a \in ToSet(toClient) : a.req \in Requests
    <3> DEFINE Frames == [req : Requests, ok : BOOLEAN]
    <3>1. toClient \in Seq(Frames)
      BY <1>a DEF SessionTypes
    <3>2. \A a \in Frames : a.req \in Requests
      OBVIOUS
    <3> HIDE DEF Frames
    <3> QED BY <3>1, <3>2, ToSetIn
  <2> QED BY <1>a, <1>1, <1>2, <1>4, <1>5, <2>1 DEF Runs
<1> QED BY <1>6, <1>7, <1>10, <1>11 DEF SessionInv

\* An answer is sent, or finds its connection gone.
LEMMA AnswersStep ==
    ASSUME SessionInv, NEW s \in serving, NEW ok \in BOOLEAN, Answers(s, ok) PROVE SessionInv'
<1>a. SessionTypes /\ WaitingTracked /\ Places /\ Runs
  BY DEF SessionInv
<1> DEFINE answer == [req |-> s.req, ok |-> ok]
<1>1. /\ ok => s.done
      /\ serving' = serving \ {s}
      /\ toClient' \in {Append(toClient, answer), toClient}
      /\ UNCHANGED <<outcome, pending, buffer, link, toServer, executed, drops>>
  BY DEF Answers, client
<1>2. answer \in [req : Requests, ok : BOOLEAN] /\ answer.ok = ok /\ answer.req = s.req
  BY <1>a DEF SessionTypes
<1> HIDE DEF answer
<1>3. /\ toClient' \in Seq([req : Requests, ok : BOOLEAN])
      /\ ToSet(toClient') \subseteq ToSet(toClient) \cup {answer}
  <2> DEFINE Frames == [req : Requests, ok : BOOLEAN]
  <2>1. toClient \in Seq(Frames) /\ answer \in Frames
    BY <1>a, <1>2 DEF SessionTypes
  <2> HIDE DEF Frames
  <2>2. /\ toClient' \in Seq(Frames)
        /\ ToSet(toClient') \subseteq ToSet(toClient) \cup {answer}
    <3>1. CASE toClient' = Append(toClient, answer)
      BY <2>1, <3>1, AppendMeans
    <3>2. CASE toClient' = toClient
      BY <2>1, <3>2
    <3> QED BY <1>1, <3>1, <3>2
  <2> QED BY <2>2 DEF Frames
<1>4. SessionTypes'
  BY <1>a, <1>1, <1>3 DEF SessionTypes
<1>5. WaitingTracked'
  BY <1>a, <1>1 DEF WaitingTracked, Waiting
<1>6. Places'
  BY <1>a, <1>1 DEF Places, Untried
<1>7. Runs'
  BY <1>a, <1>1, <1>2, <1>3 DEF Runs
<1> QED BY <1>4, <1>5, <1>6, <1>7 DEF SessionInv

-----------------------------------------------------------------------------
LEMMA SessionStep == SessionInv /\ [NextSession]_sessionVars => SessionInv'
<1> SUFFICES ASSUME SessionInv, [NextSession]_sessionVars PROVE SessionInv'
  OBVIOUS
<1>1. CASE UNCHANGED sessionVars
  BY <1>1 DEF sessionVars, client, server, SessionInv, SessionTypes, WaitingTracked, Waiting,
              Places, Runs, Untried
<1> QED
  BY <1>1, RequestStep, RequestClosedStep, TimesOutStep, CloseStep, OpensStep, DropsStep,
     ReconnectsStep, ReceivesStep, ClientReceivesStep, ExecutesStep, AnswersStep
  DEF NextSession

\* A promise waits exactly while its request is in the map or the buffer, never
\* in both, through reconnections, timeouts, late answers and close().
THEOREM WaitingTrackedHolds == SessionSpec => []WaitingTracked
<1>1. SessionInv => WaitingTracked
  BY DEF SessionInv
<1> QED BY <1>1, SessionStarts, SessionStep, PTL DEF SessionSpec

\* Over any number of lost connections the server runs a request at most once,
\* has run those answered with success, and none that is still to be sent.
THEOREM AtMostOnceHolds == SessionSpec => []AtMostOnce
<1>1. SessionInv => AtMostOnce
  BY DEF SessionInv, Places, Runs, Untried, AtMostOnce
<1> QED BY <1>1, SessionStarts, SessionStep, PTL DEF SessionSpec

-----------------------------------------------------------------------------
(***************************************************************************)
(* Worker.  The workers' queue is the queue of JobQueue, so what is proved *)
(* of the queue in JobQueueProofs holds under the workers.                 *)
(***************************************************************************)

\* The states of a poll loop, of a call of processJob(), and the requests.
LoopStates == [state : {"off", "timer", "asked", "answered"}, try : {0, 1}]

ExecStates ==
    [pc : {"none", "over"}, by : {<<>>}, beats : {FALSE}, try : {0}, answer : {"none"}] \cup
    [pc : ExecPcs \ {"none", "over"}, by : Workers \X Loops, beats : BOOLEAN,
     try : {0, 1}, answer : {"none", "ok", "refused"}]

Messages ==
    [op : {"claim"}, caller : Workers \X Loops, try : {0, 1}] \cup
    [op : Calling, caller : Executions, try : {0, 1}]

WorkerTypes ==
    /\ running \in [Workers -> BOOLEAN]
    /\ stopping \in [Workers -> Nat]
    /\ loop \in [Workers -> [Loops -> LoopStates]]
    /\ activeJobs \in [Workers -> [Jobs -> Nat]]
    /\ exec \in [Executions -> ExecStates]
    /\ wire \subseteq Messages

NeverRequeued == requeues = [j \in Jobs |-> [r \in Routes |-> 0]]

\* The queue holds the job of e active, for the attempt that e is.
Holds(e) == job[e[1]].status = "active" /\ job[e[1]].attempts = e[2]

\* e has yet to learn what the server made of it.
Standing(e) ==
    \/ exec[e].pc \in {"coming", "handler"}
    \/ exec[e].pc \in Calling /\ exec[e].answer = "none"

\* What an execution that nothing disturbed is entitled to.
Entitled(e) ==
    e[1] \notin disturbed =>
        /\ Standing(e) => Holds(e)
        /\ exec[e].pc \in Calling => exec[e].answer # "refused"

\* A report on its way ends the attempt it is about, which waits or has died.
Reports(r) ==
    r.op \in Calling /\ r.caller[1] \notin disturbed =>
        /\ Holds(r.caller)
        /\ exec[r.caller].pc = "over" \/ (Waits(r) /\ exec[r.caller].answer = "none")
        /\ \A u \in wire : u.op \in Calling /\ u.caller = r.caller => u = r

Ownership ==
    /\ \A e \in Executions : Entitled(e)
    /\ \A r \in wire : Reports(r)

\* Attempts that run were claimed; an entry of activeJobs is its worker's own.
Registered ==
    /\ \A j \in Jobs : job[j].status = "none" => job[j].attempts = 0
    /\ \A w \in Workers, j \in Jobs : activeJobs[w][j] <= job[j].attempts
    /\ \A w \in Workers, e \in Executions :
         activeJobs[w][e[1]] = e[2] /\ exec[e].pc \notin {"none", "over"} => WorkerOf(e) = w
    /\ \A e \in Executions : exec[e].pc \notin {"none", "over"} => e[2] <= job[e[1]].attempts

-----------------------------------------------------------------------------
LEMMA ExecutionIs ==
    /\ \A e \in Executions : /\ e[1] \in Jobs /\ e[2] \in Nat \ {0}
                             /\ e = <<e[1], e[2]>>
    /\ \A e, x \in Executions : e[1] = x[1] /\ e[2] = x[2] => e = x
<1>1. MaxAttempts \in [Jobs -> Nat]
  BY JobQueueAssumption
<1>2. ASSUME NEW e \in Executions
      PROVE  e[1] \in Jobs /\ e[2] \in Nat \ {0} /\ e = <<e[1], e[2]>>
  <2>1. PICK j \in Jobs : e \in {j} \X (1..MaxAttempts[j])
    BY DEF Executions
  <2>2. MaxAttempts[j] \in Nat
    BY <1>1
  <2> QED BY <2>1, <2>2
<1>3. \A e, x \in Executions : e[1] = x[1] /\ e[2] = x[2] => e = x
  <2>1. ASSUME NEW e \in Executions, NEW x \in Executions, e[1] = x[1], e[2] = x[2]
        PROVE  e = x
    <3>1. e = <<e[1], e[2]>> /\ x = <<x[1], x[2]>>
      BY <1>2
    <3> QED BY <2>1, <3>1
  <2> QED BY <2>1
<1> QED BY <1>2, <1>3

\* What an execution that runs or waits looks like.
LEMMA ExecIs ==
    ASSUME WorkerTypes, NEW e \in Executions, exec[e].pc \notin {"none", "over"}
    PROVE  /\ exec[e] \in [pc : ExecPcs \ {"none", "over"}, by : Workers \X Loops,
                           beats : BOOLEAN, try : {0, 1}, answer : {"none", "ok", "refused"}]
           /\ WorkerOf(e) \in Workers /\ exec[e].by[2] \in Loops
           /\ exec[e].by = <<exec[e].by[1], exec[e].by[2]>>
<1>1. exec[e] \in ExecStates
  BY DEF WorkerTypes
<1>2. exec[e] \in [pc : ExecPcs \ {"none", "over"}, by : Workers \X Loops, beats : BOOLEAN,
                  try : {0, 1}, answer : {"none", "ok", "refused"}]
  BY <1>1 DEF ExecStates
<1>3. exec[e].by \in Workers \X Loops
  BY <1>2
<1>4. /\ exec[e].by[1] \in Workers /\ exec[e].by[2] \in Loops
      /\ exec[e].by = <<exec[e].by[1], exec[e].by[2]>>
  BY <1>3
<1> QED BY <1>2, <1>4 DEF WorkerOf

LEMMA MessageIs ==
    ASSUME WorkerTypes, NEW r \in wire
    PROVE  /\ r.op = "claim" => /\ r.caller[1] \in Workers /\ r.caller[2] \in Loops
                                /\ r.caller = <<r.caller[1], r.caller[2]>>
           /\ r.op \in Calling => r.caller \in Executions
           /\ r.try \in {0, 1} /\ r.op \in {"claim"} \cup Calling
BY DEF WorkerTypes, Messages, Calling

LEMMA PcTypes == ExecPcs = {"none", "coming", "handler", "over", "complete", "fail"}
BY DEF ExecPcs, Calling

\* One loop of one worker changes.
LEMMA LoopEdit ==
    ASSUME NEW f \in [Workers -> [Loops -> LoopStates]], NEW w \in Workers,
           NEW l \in Loops, NEW s \in LoopStates
    PROVE  /\ [f EXCEPT ![w][l] = s] \in [Workers -> [Loops -> LoopStates]]
           /\ \A v \in Workers, k \in Loops :
                [f EXCEPT ![w][l] = s][v][k] = IF v = w /\ k = l THEN s ELSE f[v][k]
OBVIOUS

\* One execution changes.
LEMMA ExecEdit ==
    ASSUME NEW f \in [Executions -> ExecStates], NEW e, NEW s \in ExecStates
    PROVE  /\ [f EXCEPT ![e] = s] \in [Executions -> ExecStates]
           /\ \A x \in Executions : [f EXCEPT ![e] = s][x] = IF x = e THEN s ELSE f[x]
OBVIOUS

LEMMA EndStates ==
    /\ IdleLoop \in LoopStates /\ IdleLoop.state = "off"
    /\ NoExec \in ExecStates /\ Over \in ExecStates
    /\ NoExec.pc = "none" /\ Over.pc = "over"
    /\ \A t \in {0, 1}, s \in {"off", "timer", "asked", "answered"} :
         [state |-> s, try |-> t] \in LoopStates
BY DEF IdleLoop, LoopStates, NoExec, Over, ExecStates

\* A loop that goes on goes on.
LEMMA PollsKept ==
    ASSUME PollsWhileRunning,
           \A v \in Workers : running'[v] => running[v],
           \A v \in Workers, k \in Loops :
             running'[v] /\ loop[v][k].state # "off" => loop'[v][k].state # "off"
    PROVE  PollsWhileRunning'
BY DEF PollsWhileRunning

\* scheduleNextPoll() keeps the loop of a worker that runs.
LEMMA SchedulesNextKeeps ==
    ASSUME WorkerTypes, NEW w \in Workers, NEW l \in Loops, SchedulesNext(w, l)
    PROVE  /\ loop' \in [Workers -> [Loops -> LoopStates]]
           /\ \A v \in Workers, k \in Loops :
                running[v] /\ loop[v][k].state # "off" => loop'[v][k].state # "off"
<1>a. loop \in [Workers -> [Loops -> LoopStates]]
  BY DEF WorkerTypes
<1> DEFINE timer == [state |-> "timer", try |-> 0]
<1>1. timer \in LoopStates /\ timer.state # "off"
  BY EndStates
<1>2. \/ running[w] /\ loop' = [loop EXCEPT ![w][l] = timer]
      \/ ~running[w] /\ loop' = [loop EXCEPT ![w][l] = IdleLoop]
  BY DEF SchedulesNext
<1> HIDE DEF timer
<1>3. CASE running[w] /\ loop' = [loop EXCEPT ![w][l] = timer]
  <2>1. /\ loop' \in [Workers -> [Loops -> LoopStates]]
        /\ \A v \in Workers, k \in Loops :
             loop'[v][k] = IF v = w /\ k = l THEN timer ELSE loop[v][k]
    BY <1>a, <1>1, <1>3, LoopEdit
  <2> QED BY <1>1, <2>1
<1>4. CASE ~running[w] /\ loop' = [loop EXCEPT ![w][l] = IdleLoop]
  <2>1. /\ loop' \in [Workers -> [Loops -> LoopStates]]
        /\ \A v \in Workers, k \in Loops :
             loop'[v][k] = IF v = w /\ k = l THEN IdleLoop ELSE loop[v][k]
    BY <1>a, <1>4, LoopEdit, EndStates
  <2> QED BY <1>4, <2>1
<1> QED BY <1>2, <1>3, <1>4

-----------------------------------------------------------------------------
LEMMA WorkerInit == Init => WorkerTypes /\ PollsWhileRunning
<1> SUFFICES ASSUME Init PROVE WorkerTypes /\ PollsWhileRunning
  OBVIOUS
<1>1. WorkerTypes
  BY EndStates DEF Init, WorkerTypes
<1>2. PollsWhileRunning
  BY DEF Init, PollsWhileRunning
<1> QED BY <1>1, <1>2

LEMMA RunTypes ==
    ASSUME WorkerTypes, PollsWhileRunning, NEW w \in Workers, Run(w)
    PROVE  WorkerTypes' /\ PollsWhileRunning'
<1> DEFINE timer == [state |-> "timer", try |-> 0]
<1>1. timer \in LoopStates /\ timer.state # "off"
  BY EndStates
<1>2. PICK l \in Loops : loop' = [loop EXCEPT ![w][l] = timer]
  BY DEF Run
<1>3. /\ running' = [running EXCEPT ![w] = TRUE]
      /\ UNCHANGED <<stopping, activeJobs, exec, wire>>
  BY DEF Run
<1> HIDE DEF timer
<1>4. /\ loop' \in [Workers -> [Loops -> LoopStates]]
      /\ \A v \in Workers, k \in Loops :
           loop'[v][k] = IF v = w /\ k = l THEN timer ELSE loop[v][k]
  BY <1>1, <1>2, LoopEdit DEF WorkerTypes
<1>5. WorkerTypes'
  BY <1>3, <1>4 DEF WorkerTypes
<1>6. PollsWhileRunning'
  <2>1. ASSUME NEW v \in Workers, running'[v] PROVE \E k \in Loops : loop'[v][k].state # "off"
    <3>1. CASE v = w
      BY <1>1, <1>4, <3>1
    <3>2. CASE v # w
      <4>1. running[v]
        BY <1>3, <2>1, <3>2 DEF WorkerTypes
      <4> QED BY <1>4, <3>2, <4>1 DEF PollsWhileRunning
    <3> QED BY <3>1, <3>2
  <2> QED BY <2>1 DEF PollsWhileRunning
<1> QED BY <1>5, <1>6

LEMMA StopTypes ==
    ASSUME WorkerTypes, PollsWhileRunning, NEW w \in Workers, Stop(w)
    PROVE  WorkerTypes' /\ PollsWhileRunning'
<1> DEFINE kept == [l \in Loops |->
             IF l = pollTimer[w] /\ loop[w][l].state = "timer" THEN IdleLoop ELSE loop[w][l]]
<1>1. /\ running' = [running EXCEPT ![w] = FALSE]
      /\ stopping' = [stopping EXCEPT ![w] = @ + 1]
      /\ UNCHANGED <<activeJobs, exec, wire>>
  BY DEF Stop
<1>2. loop' = [loop EXCEPT ![w] = kept]
  BY DEF Stop
<1>3. kept \in [Loops -> LoopStates]
  BY EndStates DEF WorkerTypes
<1> HIDE DEF kept
<1>4. /\ loop' \in [Workers -> [Loops -> LoopStates]]
      /\ \A v \in Workers : v # w => loop'[v] = loop[v]
  BY <1>2, <1>3 DEF WorkerTypes
<1>5. WorkerTypes'
  <2>1. running' \in [Workers -> BOOLEAN]
    BY <1>1 DEF WorkerTypes
  <2>2. stopping' \in [Workers -> Nat]
    BY <1>1 DEF WorkerTypes
  <2> QED BY <1>1, <1>4, <2>1, <2>2 DEF WorkerTypes
<1>6. PollsWhileRunning'
  BY <1>1, <1>4 DEF PollsWhileRunning, WorkerTypes
<1> QED BY <1>5, <1>6

LEMMA StopReturnsTypes ==
    ASSUME WorkerTypes, PollsWhileRunning, NEW w \in Workers, StopReturns(w)
    PROVE  /\ WorkerTypes' /\ PollsWhileRunning'
           /\ \A e \in Executions :
                /\ exec'[e].pc = exec[e].pc /\ exec'[e].by = exec[e].by
                /\ exec'[e].try = exec[e].try /\ exec'[e].answer = exec[e].answer
<1>1. /\ stopping[w] > 0
      /\ stopping' = [stopping EXCEPT ![w] = @ - 1]
      /\ exec' = [e \in Executions |->
                    IF activeJobs[w][e[1]] = e[2] THEN [exec[e] EXCEPT !.beats = FALSE]
                                                  ELSE exec[e]]
      /\ activeJobs' = [activeJobs EXCEPT ![w] = [j \in Jobs |-> 0]]
      /\ UNCHANGED <<running, loop, wire>>
  BY DEF StopReturns
<1>2. ASSUME NEW e \in Executions
      PROVE  /\ exec'[e] \in ExecStates
             /\ exec'[e].pc = exec[e].pc /\ exec'[e].by = exec[e].by
             /\ exec'[e].try = exec[e].try /\ exec'[e].answer = exec[e].answer
    <2>1. exec'[e] = exec[e] \/ exec'[e] = [exec[e] EXCEPT !.beats = FALSE]
      BY <1>1
    <2>2. exec[e] \in ExecStates
      BY DEF WorkerTypes
    <2> DEFINE x == exec[e]
               y == [x EXCEPT !.beats = FALSE]
    <2>3. y \in ExecStates /\ y.pc = x.pc /\ y.by = x.by /\ y.try = x.try /\ y.answer = x.answer
      BY <2>2 DEF ExecStates
    <2> QED BY <2>1, <2>2, <2>3
<1>3. exec' \in [Executions -> ExecStates]
  <2>1. exec' = [e \in Executions |-> exec'[e]]
    BY <1>1
  <2> QED BY <1>2, <2>1
<1>4. stopping' \in [Workers -> Nat] /\ activeJobs' \in [Workers -> [Jobs -> Nat]]
  BY <1>1 DEF WorkerTypes
<1>5. WorkerTypes'
  BY <1>1, <1>3, <1>4 DEF WorkerTypes
<1> QED BY <1>1, <1>2, <1>5 DEF PollsWhileRunning

\* The process of a worker ends.
LEMMA ExitsTypes ==
    ASSUME WorkerTypes, PollsWhileRunning, NEW w \in Workers, Exits(w), wire' \subseteq Messages
    PROVE  /\ WorkerTypes' /\ PollsWhileRunning'
           /\ \A e \in Executions : exec'[e] = exec[e] \/ exec'[e] = Over
<1>1. /\ running' = [running EXCEPT ![w] = FALSE]
      /\ stopping' = [stopping EXCEPT ![w] = 0]
      /\ loop' = [loop EXCEPT ![w] = [l \in Loops |-> IdleLoop]]
      /\ activeJobs' = [activeJobs EXCEPT ![w] = [j \in Jobs |-> 0]]
      /\ exec' = [e \in Executions |->
                    IF exec[e].pc \notin {"none", "over"} /\ WorkerOf(e) = w
                    THEN Over ELSE exec[e]]
  BY DEF Exits
<1>2. WorkerTypes'
  BY <1>1, EndStates DEF WorkerTypes
<1>3. PollsWhileRunning'
  BY <1>1 DEF PollsWhileRunning, WorkerTypes
<1> QED BY <1>1, <1>2, <1>3

-----------------------------------------------------------------------------
LEMMA PollFiresTypes ==
    ASSUME WorkerTypes, PollsWhileRunning, NEW w \in Workers, NEW l \in Loops, PollFires(w, l)
    PROVE  WorkerTypes' /\ PollsWhileRunning'
<1>1. UNCHANGED <<running, stopping, activeJobs, exec>>
  BY DEF PollFires
<1>2. CASE SchedulesNext(w, l) /\ UNCHANGED wire
  BY <1>1, <1>2, SchedulesNextKeeps, PollsKept DEF WorkerTypes
<1>3. CASE /\ loop' = [loop EXCEPT ![w][l] = [state |-> "asked", try |-> 0]]
           /\ wire' = wire \cup {RequestOf("claim", <<w, l>>, 0)}
  <2> DEFINE asked == [state |-> "asked", try |-> 0]
  <2>1. asked \in LoopStates /\ asked.state # "off"
    BY EndStates
  <2>2. loop' = [loop EXCEPT ![w][l] = asked]
    BY <1>3
  <2> HIDE DEF asked
  <2>3. /\ loop' \in [Workers -> [Loops -> LoopStates]]
        /\ \A v \in Workers, k \in Loops :
             loop'[v][k] = IF v = w /\ k = l THEN asked ELSE loop[v][k]
    BY <2>1, <2>2, LoopEdit DEF WorkerTypes
  <2>4. RequestOf("claim", <<w, l>>, 0) \in Messages
    BY DEF RequestOf, Messages
  <2>5. WorkerTypes'
    BY <1>1, <1>3, <2>3, <2>4 DEF WorkerTypes
  <2>6. PollsWhileRunning'
    BY <1>1, <2>1, <2>3, PollsKept
  <2> QED BY <2>5, <2>6
<1> QED BY <1>2, <1>3 DEF PollFires

LEMMA ServesNothingTypes ==
    ASSUME WorkerTypes, PollsWhileRunning, NEW r \in wire, ServesNothing(r)
    PROVE  WorkerTypes' /\ PollsWhileRunning'
<1>1. /\ r.caller[1] \in Workers /\ r.caller[2] \in Loops
      /\ wire' = wire \ {r} /\ UNCHANGED <<running, stopping, activeJobs, exec>>
  BY MessageIs DEF ServesNothing
<1>2. CASE SchedulesNext(r.caller[1], r.caller[2])
  BY <1>1, <1>2, SchedulesNextKeeps, PollsKept DEF WorkerTypes
<1>3. CASE UNCHANGED loop
  BY <1>1, <1>3, PollsKept DEF WorkerTypes
<1> QED BY <1>2, <1>3 DEF ServesNothing

\* The claim's answer: one execution changes, and the loop still waits.
LEMMA ServesClaimTypes ==
    ASSUME WorkerTypes, PollsWhileRunning, NEW r \in wire, ServesClaim(r)
    PROVE  WorkerTypes' /\ PollsWhileRunning'
<1> DEFINE w == r.caller[1]
           l == r.caller[2]
<1>1. /\ w \in Workers /\ l \in Loops /\ wire' = wire \ {r}
      /\ UNCHANGED <<running, stopping, activeJobs>>
  BY MessageIs DEF ServesClaim
<1>2. PICK j \in Jobs : HandsOut(j, w, l, r)
  BY DEF ServesClaim
<1>3. exec' \in [Executions -> ExecStates]
  <2> DEFINE coming == [NoExec EXCEPT !.pc = "coming", !.by = <<w, l>>]
             e == <<j, job[j].attempts + 1>>
  <2>1. coming \in ExecStates
    BY <1>1 DEF NoExec, ExecStates, ExecPcs, Calling
  <2>2. exec' = [exec EXCEPT ![e] = coming] \/ exec' = [exec EXCEPT ![e] = Over]
    BY <1>2 DEF HandsOut
  <2> HIDE DEF coming, e
  <2>3. CASE exec' = [exec EXCEPT ![e] = coming]
    BY <2>1, <2>3, ExecEdit DEF WorkerTypes
  <2>4. CASE exec' = [exec EXCEPT ![e] = Over]
    BY <2>4, EndStates, ExecEdit DEF WorkerTypes
  <2> QED BY <2>2, <2>3, <2>4
<1>4. /\ loop' \in [Workers -> [Loops -> LoopStates]]
      /\ \A v \in Workers, k \in Loops :
           loop[v][k].state # "off" => loop'[v][k].state # "off"
  <2>1. CASE loop' = loop
    BY <2>1 DEF WorkerTypes
  <2>2. CASE loop' = [loop EXCEPT ![w][l].state = "answered"]
    <3> DEFINE answered == [loop[w][l] EXCEPT !.state = "answered"]
    <3>1. loop[w][l] \in LoopStates
      BY <1>1 DEF WorkerTypes
    <3>2. answered \in LoopStates /\ answered.state # "off"
      BY <3>1 DEF LoopStates
    <3>3. loop' = [loop EXCEPT ![w][l] = answered]
      BY <2>2
    <3> HIDE DEF answered, w, l
    <3>4. /\ loop' \in [Workers -> [Loops -> LoopStates]]
          /\ \A v \in Workers, k \in Loops :
               loop'[v][k] = IF v = w /\ k = l THEN answered ELSE loop[v][k]
      BY <1>1, <3>2, <3>3, LoopEdit DEF WorkerTypes
    <3> QED BY <3>2, <3>4
  <2> QED BY <2>1, <2>2 DEF ServesClaim
<1>5. WorkerTypes'
  BY <1>1, <1>3, <1>4 DEF WorkerTypes
<1>6. PollsWhileRunning'
  BY <1>1, <1>4, PollsKept
<1> QED BY <1>5, <1>6

LEMMA ClaimGivenUpTypes ==
    ASSUME WorkerTypes, PollsWhileRunning, NEW w \in Workers, NEW l \in Loops,
           ClaimGivenUp(w, l)
    PROVE  /\ WorkerTypes' /\ PollsWhileRunning'
           /\ \A u \in wire' : u.op = "claim" \/ u \in wire
           /\ \A e \in Executions : exec'[e] = exec[e] \/ exec'[e] = Over
<1> DEFINE r == RequestOf("claim", <<w, l>>, loop[w][l].try)
           again == [r EXCEPT !.try = 1]
<1>1. /\ UNCHANGED <<running, stopping, activeJobs>>
      /\ exec' = [e \in Executions |->
                    IF exec[e].pc = "coming" /\ exec[e].by = <<w, l>> THEN Over ELSE exec[e]]
  BY DEF ClaimGivenUp
<1>2. exec' \in [Executions -> ExecStates]
  BY <1>1, EndStates DEF WorkerTypes
<1>3. again \in Messages /\ again.op = "claim"
  BY DEF RequestOf, Messages
<1>4. PICK left \in {wire, wire \ {r}} :
         \/ /\ loop' = [loop EXCEPT ![w][l] = [state |-> "asked", try |-> 1]]
            /\ wire' = left \cup {again}
         \/ SchedulesNext(w, l) /\ wire' = left
  BY DEF ClaimGivenUp, PollRecovers
<1> HIDE DEF again, r
<1>5. wire' \subseteq Messages /\ \A u \in wire' : u.op = "claim" \/ u \in wire
  BY <1>3, <1>4 DEF WorkerTypes
<1>6. CASE loop' = [loop EXCEPT ![w][l] = [state |-> "asked", try |-> 1]]
  <2> DEFINE asked == [state |-> "asked", try |-> 1]
  <2>1. asked \in LoopStates /\ asked.state # "off"
    BY EndStates
  <2>2. loop' = [loop EXCEPT ![w][l] = asked]
    BY <1>6
  <2> HIDE DEF asked
  <2>3. /\ loop' \in [Workers -> [Loops -> LoopStates]]
        /\ \A v \in Workers, k \in Loops :
             loop'[v][k] = IF v = w /\ k = l THEN asked ELSE loop[v][k]
    BY <2>1, <2>2, LoopEdit DEF WorkerTypes
  <2>4. WorkerTypes'
    BY <1>1, <1>2, <1>5, <2>3 DEF WorkerTypes
  <2>5. PollsWhileRunning'
    BY <1>1, <2>1, <2>3, PollsKept
  <2> QED BY <1>1, <1>5, <2>4, <2>5
<1>7. CASE SchedulesNext(w, l)
  <2>1. WorkerTypes'
    BY <1>1, <1>2, <1>5, <1>7, SchedulesNextKeeps DEF WorkerTypes
  <2>2. PollsWhileRunning'
    BY <1>1, <1>7, SchedulesNextKeeps, PollsKept
  <2> QED BY <1>1, <1>5, <2>1, <2>2
<1> QED BY <1>4, <1>6, <1>7

\* The fields of one call of processJob() change.
LEMMA ProcessJobTypes ==
    ASSUME WorkerTypes, PollsWhileRunning, NEW e \in Executions, ProcessJob(e)
    PROVE  /\ WorkerTypes' /\ PollsWhileRunning'
           /\ exec[e].pc = "coming" /\ exec'[e].pc = "handler" /\ exec'[e].by = exec[e].by
           /\ \A x \in Executions : x # e => exec'[x] = exec[x]
<1> DEFINE y == [exec[e] EXCEPT !.pc = "handler", !.beats = TRUE]
<1>1. /\ exec[e].pc = "coming" /\ exec' = [exec EXCEPT ![e] = y]
      /\ activeJobs' = [activeJobs EXCEPT ![WorkerOf(e)][e[1]] = e[2]]
      /\ SchedulesNext(exec[e].by[1], exec[e].by[2])
      /\ UNCHANGED <<running, stopping, wire>>
  BY DEF ProcessJob
<1>2. /\ WorkerOf(e) \in Workers /\ exec[e].by[1] \in Workers /\ exec[e].by[2] \in Loops
      /\ exec[e] \in [pc : ExecPcs \ {"none", "over"}, by : Workers \X Loops,
                      beats : BOOLEAN, try : {0, 1}, answer : {"none", "ok", "refused"}]
  BY <1>1, ExecIs DEF WorkerOf
<1>3. y \in ExecStates /\ y.pc = "handler" /\ y.by = exec[e].by
  BY <1>2, PcTypes DEF ExecStates
<1> HIDE DEF y
<1>4. /\ exec' \in [Executions -> ExecStates]
      /\ \A x \in Executions : exec'[x] = IF x = e THEN y ELSE exec[x]
  BY <1>1, <1>3, ExecEdit DEF WorkerTypes
<1>5. e[1] \in Jobs /\ e[2] \in Nat
  BY ExecutionIs
<1>6. activeJobs' \in [Workers -> [Jobs -> Nat]]
  BY <1>1, <1>2, <1>5 DEF WorkerTypes
<1>7. WorkerTypes'
  BY <1>1, <1>2, <1>4, <1>6, SchedulesNextKeeps DEF WorkerTypes
<1>8. PollsWhileRunning'
  BY <1>1, <1>2, SchedulesNextKeeps, PollsKept
<1> QED BY <1>1, <1>3, <1>4, <1>7, <1>8

LEMMA SendsTypes ==
    ASSUME WorkerTypes, NEW e \in Executions, exec[e].pc \notin {"none", "over"},
           NEW op \in Calling, NEW try \in {0, 1}, NEW left \in SUBSET wire,
           Sends(e, op, try, left)
    PROVE  /\ exec' \in [Executions -> ExecStates] /\ wire' \subseteq Messages
           /\ exec'[e].pc = op /\ exec'[e].try = try /\ exec'[e].answer = "none"
           /\ exec'[e].by = exec[e].by
           /\ \A x \in Executions : x # e => exec'[x] = exec[x]
           /\ wire' = left \cup {RequestOf(op, e, try)}
<1> DEFINE y == [exec[e] EXCEPT !.pc = op, !.try = try, !.answer = "none"]
<1>1. exec' = [exec EXCEPT ![e] = y] /\ wire' = left \cup {RequestOf(op, e, try)}
  BY DEF Sends
<1>2. exec[e] \in [pc : ExecPcs \ {"none", "over"}, by : Workers \X Loops,
                   beats : BOOLEAN, try : {0, 1}, answer : {"none", "ok", "refused"}]
  BY ExecIs
<1>3. /\ y \in ExecStates /\ y.pc = op /\ y.try = try /\ y.answer = "none"
      /\ y.by = exec[e].by
  BY <1>2, PcTypes DEF ExecStates, Calling
<1> HIDE DEF y
<1>4. /\ exec' \in [Executions -> ExecStates]
      /\ \A x \in Executions : exec'[x] = IF x = e THEN y ELSE exec[x]
  BY <1>1, <1>3, ExecEdit DEF WorkerTypes
<1>5. RequestOf(op, e, try) \in Messages
  BY DEF RequestOf, Messages
<1> QED BY <1>1, <1>3, <1>4, <1>5 DEF WorkerTypes

LEMMA HandlerSettlesTypes ==
    ASSUME WorkerTypes, PollsWhileRunning, NEW e \in Executions, HandlerSettles(e)
    PROVE  WorkerTypes' /\ PollsWhileRunning'
<1>1. PICK op \in Calling : Sends(e, op, 0, wire)
  BY DEF HandlerSettles
<1>2. exec[e].pc = "handler" /\ UNCHANGED <<running, stopping, loop, activeJobs>>
  BY DEF HandlerSettles
<1>3. exec' \in [Executions -> ExecStates] /\ wire' \subseteq Messages
  BY <1>1, <1>2, SendsTypes
<1> QED BY <1>2, <1>3 DEF WorkerTypes, PollsWhileRunning

LEMMA ServesOutcomeTypes ==
    ASSUME WorkerTypes, PollsWhileRunning, NEW r \in wire, ServesOutcome(r)
    PROVE  /\ WorkerTypes' /\ PollsWhileRunning'
           /\ \A x \in Executions : x # r.caller => exec'[x] = exec[x]
           /\ exec'[r.caller].pc = exec[r.caller].pc /\ exec'[r.caller].by = exec[r.caller].by
           /\ exec'[r.caller].beats = exec[r.caller].beats
           /\ exec'[r.caller].try = exec[r.caller].try
           /\ exec'[r.caller].answer =
                IF Waits(r) THEN IF ActiveSlots(r.caller[1]) = {} THEN "refused" ELSE "ok"
                            ELSE exec[r.caller].answer
<1> DEFINE e == r.caller
           a == CASE ~Waits(r) -> exec[e].answer
                  [] Waits(r) /\ ActiveSlots(e[1]) = {} -> "refused"
                  [] OTHER -> "ok"
           y == [exec[e] EXCEPT !.answer = a]
<1>1. /\ r.op \in Calling /\ wire' = wire \ {r} /\ exec' = [exec EXCEPT ![e] = y]
      /\ UNCHANGED <<running, stopping, loop, activeJobs>>
  BY DEF ServesOutcome
<1>2. e \in Executions /\ exec[e] \in ExecStates
  BY <1>1, MessageIs DEF WorkerTypes
<1>3. a = IF Waits(r) THEN IF ActiveSlots(e[1]) = {} THEN "refused" ELSE "ok"
                      ELSE exec[e].answer
  OBVIOUS
<1> HIDE DEF a
<1>4. /\ y \in ExecStates /\ y.pc = exec[e].pc /\ y.by = exec[e].by
      /\ y.beats = exec[e].beats /\ y.try = exec[e].try /\ y.answer = a
  <2>1. CASE Waits(r)
    <3>1. exec[e].pc \notin {"none", "over"}
      BY <1>1, <2>1 DEF Waits, Calling
    <3>2. exec[e] \in [pc : ExecPcs \ {"none", "over"}, by : Workers \X Loops,
                       beats : BOOLEAN, try : {0, 1}, answer : {"none", "ok", "refused"}]
      BY <1>2, <3>1, ExecIs
    <3>3. a \in {"none", "ok", "refused"}
      BY <1>3, <2>1
    <3> QED BY <3>2, <3>3 DEF ExecStates
  <2>2. CASE ~Waits(r)
    <3>1. a = exec[e].answer
      BY <1>3, <2>2
    <3> QED BY <1>2, <3>1 DEF ExecStates
  <2> QED BY <2>1, <2>2
<1> HIDE DEF y
<1>5. /\ exec' \in [Executions -> ExecStates]
      /\ \A x \in Executions : exec'[x] = IF x = e THEN y ELSE exec[x]
  BY <1>1, <1>4, ExecEdit DEF WorkerTypes
<1>6. WorkerTypes'
  BY <1>1, <1>5 DEF WorkerTypes
<1> QED BY <1>1, <1>2, <1>3, <1>4, <1>5, <1>6 DEF PollsWhileRunning

LEMMA CallReturnsTypes ==
    ASSUME WorkerTypes, PollsWhileRunning, NEW e \in Executions, CallReturns(e)
    PROVE  /\ WorkerTypes' /\ PollsWhileRunning'
           /\ \A x \in Executions : exec'[x] = IF x = e THEN Over ELSE exec[x]
<1>1. /\ exec[e].pc \in Calling /\ exec' = [exec EXCEPT ![e] = Over]
      /\ activeJobs' = [activeJobs EXCEPT ![WorkerOf(e)][e[1]] = 0]
      /\ UNCHANGED <<running, stopping, loop, wire>>
  BY DEF CallReturns, CleansUp
<1>2. /\ exec' \in [Executions -> ExecStates]
      /\ \A x \in Executions : exec'[x] = IF x = e THEN Over ELSE exec[x]
  BY <1>1, EndStates, ExecEdit DEF WorkerTypes
<1>3. activeJobs' \in [Workers -> [Jobs -> Nat]]
  BY <1>1 DEF WorkerTypes
<1>4. WorkerTypes'
  BY <1>1, <1>2, <1>3 DEF WorkerTypes
<1> QED BY <1>1, <1>2, <1>4 DEF PollsWhileRunning

LEMMA RejectsTypes ==
    ASSUME WorkerTypes, PollsWhileRunning, NEW e \in Executions, exec[e].pc \in Calling,
           NEW left \in SUBSET wire, Rejects(e, left)
    PROVE  /\ WorkerTypes' /\ PollsWhileRunning'
           /\ \A x \in Executions : x # e => exec'[x] = exec[x] \/ exec'[x] = Over
           /\ exec'[e].by = exec[e].by \/ exec'[e] = Over
           /\ \A u \in wire' : u \in wire \/ u.caller = e
<1>1. exec[e].pc \notin {"none", "over"}
  BY DEF Calling
<1>2. WorkerOf(e) \in Workers
  BY <1>1, ExecIs
<1>3. CASE exec[e].pc = "fail" /\ Exits(WorkerOf(e)) /\ wire' = left
  <2>1. wire' \subseteq Messages
    BY <1>3 DEF WorkerTypes
  <2> QED BY <1>2, <1>3, <2>1, ExitsTypes
<1>4. ASSUME NEW op \in Calling, NEW try \in {0, 1}, Sends(e, op, try, left),
             UNCHANGED <<running, stopping, pollTimer, loop, activeJobs>>
      PROVE  /\ WorkerTypes' /\ PollsWhileRunning'
             /\ \A x \in Executions : x # e => exec'[x] = exec[x] \/ exec'[x] = Over
             /\ exec'[e].by = exec[e].by \/ exec'[e] = Over
             /\ \A u \in wire' : u \in wire \/ u.caller = e
  <2>1. /\ exec' \in [Executions -> ExecStates] /\ wire' \subseteq Messages
        /\ \A x \in Executions : x # e => exec'[x] = exec[x]
        /\ exec'[e].by = exec[e].by
        /\ wire' = left \cup {RequestOf(op, e, try)}
    BY <1>1, <1>4, SendsTypes
  <2>2. RequestOf(op, e, try).caller = e
    BY DEF RequestOf
  <2>3. \A u \in wire' : u \in wire \/ u.caller = e
    BY <2>1, <2>2
  <2> QED BY <1>4, <2>1, <2>3 DEF WorkerTypes, PollsWhileRunning
<1>5. "fail" \in Calling
  BY DEF Calling
<1> QED BY <1>3, <1>4, <1>5 DEF Rejects

LEMMA WorkerTypesStep ==
    WorkerTypes /\ PollsWhileRunning /\ [Next]_vars => WorkerTypes' /\ PollsWhileRunning'
<1> SUFFICES ASSUME WorkerTypes, PollsWhileRunning, [Next]_vars
             PROVE  WorkerTypes' /\ PollsWhileRunning'
  OBVIOUS
<1>1. CASE UNCHANGED workerVars
  BY <1>1 DEF workerVars, WorkerTypes, PollsWhileRunning
<1>2. ASSUME NEW w \in Workers, Killed(w) PROVE WorkerTypes' /\ PollsWhileRunning'
  <2>1. Exits(w) /\ wire' \subseteq Messages
    BY <1>2 DEF Killed, WorkerTypes
  <2> QED BY <2>1, ExitsTypes
<1>3. ASSUME NEW e \in Executions, CallRefused(e) PROVE WorkerTypes' /\ PollsWhileRunning'
  BY <1>3, RejectsTypes DEF CallRefused
<1>4. ASSUME NEW e \in Executions, CallGivenUp(e) PROVE WorkerTypes' /\ PollsWhileRunning'
  <2>1. PICK left \in {wire, wire \ {RequestOf(exec[e].pc, e, exec[e].try)}} : Rejects(e, left)
    BY <1>4 DEF CallGivenUp
  <2>2. left \in SUBSET wire /\ exec[e].pc \in Calling
    BY <1>4 DEF CallGivenUp
  <2> QED BY <2>1, <2>2, RejectsTypes
<1>5. CASE Reaps
  BY <1>5 DEF Reaps, WorkerTypes, PollsWhileRunning
<1>6. ASSUME NEW w \in Workers,
             \/ Run(w) \/ Stop(w) \/ StopReturns(w) \/ Killed(w)
             \/ \E l \in Loops : PollFires(w, l) \/ ClaimGivenUp(w, l)
      PROVE  WorkerTypes' /\ PollsWhileRunning'
  BY <1>2, <1>6, RunTypes, StopTypes, StopReturnsTypes, PollFiresTypes, ClaimGivenUpTypes
<1>7. ASSUME NEW r \in wire, ServesClaim(r) \/ ServesNothing(r) \/ ServesOutcome(r)
      PROVE  WorkerTypes' /\ PollsWhileRunning'
  BY <1>7, ServesClaimTypes, ServesNothingTypes, ServesOutcomeTypes
<1>8. ASSUME NEW e \in Executions,
             \/ ProcessJob(e) \/ HandlerSettles(e) \/ Beats(e)
             \/ CallReturns(e) \/ CallRefused(e) \/ CallGivenUp(e)
      PROVE  WorkerTypes' /\ PollsWhileRunning'
  BY <1>1, <1>3, <1>4, <1>8, ProcessJobTypes, HandlerSettlesTypes, CallReturnsTypes DEF Beats
<1>9. CASE ServerOnly
  BY <1>1, <1>9 DEF ServerOnly
<1>10. CASE UNCHANGED vars
  BY <1>1, <1>10 DEF vars
<1> QED BY <1>5, <1>6, <1>7, <1>8, <1>9, <1>10 DEF Next

LEMMA WorkerTypesHold == Spec => [](WorkerTypes /\ PollsWhileRunning)
BY WorkerInit, WorkerTypesStep, PTL DEF Spec

\* A worker that is running always has a timer or a claim under way, whatever
\* became of its claims and however run(), stop() and kills alternate.
THEOREM PollsWhileRunningHolds == Spec => []PollsWhileRunning
BY WorkerTypesHold, PTL

-----------------------------------------------------------------------------
\* A step of the workers is a step of the queue or leaves it alone.
LEMMA WorkerStepIsQueueStep == WorkerTypes /\ [Next]_vars => [NextQueue]_queueVars
<1> SUFFICES ASSUME WorkerTypes, [Next]_vars PROVE [NextQueue]_queueVars
  OBVIOUS
<1>1. ASSUME NEW w \in Workers,
             \/ Run(w) \/ Stop(w) \/ StopReturns(w) \/ Killed(w)
             \/ \E l \in Loops : PollFires(w, l) \/ ClaimGivenUp(w, l)
      PROVE  UNCHANGED queueVars
  BY <1>1 DEF Run, Stop, StopReturns, Killed, PollFires, ClaimGivenUp
<1>2. ASSUME NEW r \in wire, ServesClaim(r) \/ ServesNothing(r) \/ ServesOutcome(r)
      PROVE  [NextQueue]_queueVars
  <2>1. CASE ServesClaim(r)
    BY <2>1 DEF ServesClaim, NextQueue
  <2>2. CASE ServesNothing(r)
    BY <2>2 DEF ServesNothing
  <2>3. CASE ServesOutcome(r)
    <3>1. r.caller[1] \in Jobs
      BY <2>3, MessageIs, ExecutionIs DEF ServesOutcome
    <3> QED BY <2>3, <3>1 DEF ServesOutcome, NextQueue
  <2> QED BY <1>2, <2>1, <2>2, <2>3
<1>3. ASSUME NEW e \in Executions,
             \/ ProcessJob(e) \/ HandlerSettles(e) \/ Beats(e)
             \/ CallReturns(e) \/ CallRefused(e) \/ CallGivenUp(e)
      PROVE  [NextQueue]_queueVars
  <2>1. e[1] \in Jobs
    BY ExecutionIs
  <2> QED BY <1>3, <2>1 DEF ProcessJob, HandlerSettles, Beats, CallReturns, CallRefused,
                            CallGivenUp, NextQueue
<1>4. CASE Reaps \/ ServerOnly
  BY <1>4 DEF Reaps, ServerOnly, NextQueue
<1>5. CASE UNCHANGED vars
  BY <1>5 DEF vars
<1> QED BY <1>1, <1>2, <1>3, <1>4, <1>5 DEF Next

(* The queue that workers, faults and the reaper drive together is the     *)
(* queue of JobQueue: each of their steps is one of its operations or      *)
(* leaves it alone.  What is proved of QueueSpec holds of them.            *)
THEOREM WorkersDriveTheQueue == Spec => QueueSpec
<1>1. Init => InitQueue
  BY DEF Init
<1> QED BY <1>1, WorkerTypesHold, WorkerStepIsQueueStep, PTL DEF Spec, QueueSpec

-----------------------------------------------------------------------------
(***************************************************************************)
(* Who owns a job.  While nothing disturbs a job, an execution that runs,  *)
(* or waits for its report's outcome, holds the queue's active attempt; a  *)
(* report on its way is the only one for its attempt.                      *)
(***************************************************************************)
OwnerInv ==
    WorkerTypes /\ PollsWhileRunning /\ Shape /\ LifeInv /\ NeverRequeued
    /\ Ownership /\ Registered

\* Where nothing is re-queued by hand, every job's status names its one place.
LEMMA LivesAre ==
    ASSUME Shape, LifeInv, NeverRequeued
    PROVE  \A j \in Jobs : Placed(j)
BY DEF NeverRequeued, LifeInv, OneRoute, OneLife, Routes

\* A step that leaves undisturbed jobs alone and only ends executions.
LEMMA QuietStep ==
    ASSUME Ownership, WorkerTypes, disturbed \subseteq disturbed',
           \A e \in Executions : e[1] \notin disturbed' /\ Holds(e) => Holds(e)',
           \A e \in Executions : e[1] \notin disturbed' =>
             \/ exec'[e] = Over
             \/ /\ exec'[e].pc = exec[e].pc /\ exec'[e].try = exec[e].try
                /\ exec'[e].answer = exec[e].answer
             \/ exec[e].pc = "coming" /\ exec'[e].pc = "handler",
           \A u \in wire' : u \in wire \/ u.op \notin Calling \/ u.caller[1] \in disturbed'
    PROVE  Ownership'
<1>1. ASSUME NEW e \in Executions PROVE Entitled(e)'
  <2> SUFFICES ASSUME e[1] \notin disturbed'
               PROVE  /\ Standing(e)' => Holds(e)'
                      /\ exec'[e].pc \in Calling => exec'[e].answer # "refused"
    BY DEF Entitled
  <2>1. /\ Standing(e) => Holds(e)
        /\ exec[e].pc \in Calling => exec[e].answer # "refused"
    BY DEF Ownership, Entitled
  <2>2. CASE exec'[e] = Over
    BY <2>2, EndStates DEF Standing, Calling
  <2>3. CASE /\ exec'[e].pc = exec[e].pc /\ exec'[e].try = exec[e].try
             /\ exec'[e].answer = exec[e].answer
    BY <2>1, <2>3 DEF Standing
  <2>4. CASE exec[e].pc = "coming" /\ exec'[e].pc = "handler"
    BY <2>1, <2>4 DEF Standing, Calling
  <2> QED BY <2>2, <2>3, <2>4
<1>2. ASSUME NEW r \in wire' PROVE Reports(r)'
  <2> SUFFICES ASSUME r.op \in Calling, r.caller[1] \notin disturbed'
               PROVE  /\ Holds(r.caller)'
                      /\ exec'[r.caller].pc = "over"
                         \/ (Waits(r)' /\ exec'[r.caller].answer = "none")
                      /\ \A u \in wire' : u.op \in Calling /\ u.caller = r.caller => u = r
    BY DEF Reports
  <2>1. r \in wire /\ r.caller \in Executions
    BY MessageIs
  <2>2. /\ Holds(r.caller)
        /\ exec[r.caller].pc = "over" \/ (Waits(r) /\ exec[r.caller].answer = "none")
        /\ \A u \in wire : u.op \in Calling /\ u.caller = r.caller => u = r
    BY <2>1 DEF Ownership, Reports
  <2>3. Holds(r.caller)' /\ \A u \in wire' : u.op \in Calling /\ u.caller = r.caller => u = r
    BY <2>1, <2>2
  <2>4. exec[r.caller].pc \notin {"coming"}
    BY <2>2 DEF Waits, Calling
  <2>5. exec'[r.caller].pc = "over" \/ (Waits(r)' /\ exec'[r.caller].answer = "none")
    BY <2>1, <2>2, <2>4, EndStates DEF Waits
  <2> QED BY <2>3, <2>5
<1> QED BY <1>1, <1>2 DEF Ownership

\* The queue's part of a job is as it was.
LEMMA HoldsStill ==
    ASSUME Shape, NEW j \in Jobs, job'[j].status = job[j].status,
           job'[j].attempts = job[j].attempts
    PROVE  \A e : e[1] = j => (Holds(e)' <=> Holds(e))
BY DEF Holds

\* fail() of another job, and the operations that are not about attempts.
LEMMA FailBodyOthers ==
    ASSUME Shape, NEW j \in Jobs, FailBody(j)
    PROVE  \A k \in Jobs : k # j => job'[k] = job[k]
<1>1. job \in [Jobs -> JobFields]
  BY DEF Shape, QueueTypeOK
<1> QED BY <1>1 DEF FailBody, RetryLater, Exhaust

LEMMA BeatsSteady ==
    ASSUME Shape, NEW j \in Jobs, Heartbeat(j) \/ HeartbeatAges(j) \/ RunAtPasses(j)
    PROVE  \A k \in Jobs : job'[k].status = job[k].status /\ job'[k].attempts = job[k].attempts
<1>1. job \in [Jobs -> JobFields]
  BY DEF Shape, QueueTypeOK
<1>2. \A k \in Jobs : \/ job'[k] = job[k]
                      \/ job'[k] = [job[k] EXCEPT !.hb = "fresh"]
                      \/ job'[k] = [job[k] EXCEPT !.hb = "silent"]
                      \/ job'[k] = [job[k] EXCEPT !.due = TRUE]
  BY <1>1 DEF Heartbeat, HeartbeatAges, RunAtPasses
<1>3. \A x \in JobFields :
        /\ [x EXCEPT !.hb = "fresh"].status = x.status /\ [x EXCEPT !.hb = "silent"].status = x.status
        /\ [x EXCEPT !.due = TRUE].status = x.status
        /\ [x EXCEPT !.hb = "fresh"].attempts = x.attempts
        /\ [x EXCEPT !.hb = "silent"].attempts = x.attempts
        /\ [x EXCEPT !.due = TRUE].attempts = x.attempts
  BY DEF JobFields
<1>4. \A k \in Jobs : job[k] \in JobFields
  BY <1>1
<1> QED BY <1>2, <1>3, <1>4

LEMMA ServerOwns == ASSUME OwnerInv, ServerOnly PROVE Ownership'
<1>a. /\ Shape /\ WorkerTypes /\ Ownership /\ \A j \in Jobs : Placed(j)
      /\ job \in [Jobs -> JobFields]
  BY LivesAre DEF OwnerInv, Shape, QueueTypeOK
<1>b. UNCHANGED <<exec, wire, disturbed>>
  BY DEF ServerOnly, workerVars
<1>1. \A e \in Executions : Holds(e) => Holds(e)'
  <2> SUFFICES ASSUME NEW e \in Executions, Holds(e) PROVE Holds(e)'
    OBVIOUS
  <2>1. e[1] \in Jobs /\ job[e[1]].status = "active"
    BY ExecutionIs DEF Holds
  <2>2. ASSUME NEW j \in Jobs, Add(j, FALSE) PROVE Holds(e)'
    <3>1. job[j].status = "none" /\ \A k \in Jobs : k # j => job'[k] = job[k]
      BY <1>a, <2>2 DEF Add, Created
    <3> QED BY <2>1, <3>1 DEF Holds
  <2>3. ASSUME NEW j \in Jobs, HeartbeatAges(j) \/ RunAtPasses(j) PROVE Holds(e)'
    BY <1>a, <2>1, <2>3, BeatsSteady DEF Holds
  <2>4. CASE PromoteDelayed
    <3>1. delayed[e[1]] = 0
      BY <1>a, <2>1 DEF Placed
    <3>2. e[1] \notin Ready
      BY <3>1 DEF Ready
    <3>3. job'[e[1]] = job[e[1]]
      BY <2>1, <2>4, <3>2 DEF PromoteDelayed
    <3> QED BY <3>3 DEF Holds
  <2>5. CASE ReaperFires
    BY <2>5 DEF ReaperFires, Holds
  <2> QED BY <2>2, <2>3, <2>4, <2>5 DEF ServerOnly
<1> QED BY <1>a, <1>b, <1>1, QuietStep

LEMMA ReapsOwns == ASSUME OwnerInv, Reaps PROVE Ownership'
<1>a. Shape /\ WorkerTypes /\ Ownership
  BY DEF OwnerInv
<1>1. PICK s \in reaping : FailBody(active[s]) /\ reaping' = reaping \ {s}
  BY DEF Reaps, ReaperVisits
<1>2. active[s] \in Jobs
  BY <1>a DEF Shape, ReapingOccupied
<1>3. active[s] \in disturbed' /\ disturbed \subseteq disturbed' /\ UNCHANGED <<exec, wire>>
  BY <1>1 DEF Reaps
<1>4. \A e \in Executions : e[1] \notin disturbed' /\ Holds(e) => Holds(e)'
  BY <1>a, <1>1, <1>2, <1>3, FailBodyOthers, ExecutionIs DEF Holds
<1> QED BY <1>a, <1>3, <1>4, QuietStep

\* Attempt n + 1 of a waiting job: nothing stands, and no report is about it.
LEMMA ClaimOwns == ASSUME OwnerInv, NEW r \in wire, ServesClaim(r) PROVE Ownership'
<1>a. /\ Shape /\ WorkerTypes /\ Ownership /\ \A k \in Jobs : Placed(k)
      /\ job \in [Jobs -> JobFields] /\ heap \in [Jobs -> Nat]
  BY LivesAre DEF OwnerInv, Shape, QueueTypeOK
<1>1. PICK j \in Jobs : Claim(j) /\ HandsOut(j, r.caller[1], r.caller[2], r)
  BY DEF ServesClaim
<1>2. wire' = wire \ {r} /\ disturbed' = disturbed
  BY DEF ServesClaim
<1>3. job[j].status # "active"
  BY <1>a, <1>1 DEF Claim, Poppable, Placed
<1>4. /\ \A k \in Jobs : k # j => job'[k] = job[k]
      /\ job'[j].status = "active" /\ job'[j].attempts = job[j].attempts + 1
  BY <1>a, <1>1 DEF Claim, JobFields
<1> DEFINE n == job[j].attempts + 1
           given == <<j, n>>
<1>5. /\ \A e \in Executions : e # given => exec'[e] = exec[e]
      /\ given \in Executions => exec'[given].pc \in {"coming", "over"}
  <2> DEFINE coming == [NoExec EXCEPT !.pc = "coming", !.by = <<r.caller[1], r.caller[2]>>]
  <2>1. coming.pc = "coming"
    BY DEF NoExec
  <2>2. exec' = [exec EXCEPT ![given] = coming] \/ exec' = [exec EXCEPT ![given] = Over]
    BY <1>1 DEF HandsOut
  <2> HIDE DEF coming, given
  <2> QED BY <1>a, <2>1, <2>2, EndStates DEF WorkerTypes
<1>6. ASSUME NEW e \in Executions PROVE Entitled(e)'
  <2>1. Entitled(e)
    BY <1>a DEF Ownership
  <2>2. CASE e = given
    <3>1. Holds(e)'
      BY <1>4, <2>2 DEF Holds
    <3>2. exec'[e].pc \notin Calling
      BY <1>5, <2>2 DEF Calling
    <3> QED BY <3>1, <3>2 DEF Entitled
  <2>3. CASE e # given /\ e[1] = j
    <3>1. ~Holds(e)
      BY <1>3, <2>3 DEF Holds
    <3>2. exec'[e] = exec[e]
      BY <1>5, <2>3
    <3> QED BY <1>2, <2>1, <3>1, <3>2 DEF Entitled, Standing
  <2>4. CASE e[1] # j
    <3>1. exec'[e] = exec[e] /\ (Holds(e)' <=> Holds(e))
      BY <1>4, <1>5, <2>4, ExecutionIs DEF Holds
    <3> QED BY <1>2, <2>1, <3>1 DEF Entitled, Standing
  <2> QED BY <2>2, <2>3, <2>4
<1>7. ASSUME NEW u \in wire' PROVE Reports(u)'
  <2> SUFFICES ASSUME u.op \in Calling, u.caller[1] \notin disturbed
               PROVE  Reports(u)'
    BY <1>2 DEF Reports
  <2>1. u \in wire /\ Reports(u) /\ Holds(u.caller) /\ u.caller \in Executions
    BY <1>2, <1>a, MessageIs DEF Ownership, Reports
  <2>2. u.caller[1] # j
    BY <1>3, <2>1 DEF Holds
  <2>3. exec'[u.caller] = exec[u.caller] /\ (Holds(u.caller)' <=> Holds(u.caller))
    BY <1>4, <1>5, <2>1, <2>2, ExecutionIs DEF Holds
  <2> QED BY <1>2, <2>1, <2>3 DEF Reports, Waits
<1> QED BY <1>6, <1>7 DEF Ownership

\* The handler's outcome is the first report of its attempt.
LEMMA SettlesOwns ==
    ASSUME OwnerInv, NEW e \in Executions, HandlerSettles(e) PROVE Ownership'
<1>a. Shape /\ WorkerTypes /\ Ownership
  BY DEF OwnerInv
<1>1. PICK op \in Calling : Sends(e, op, 0, wire)
  BY DEF HandlerSettles
<1>2. exec[e].pc = "handler" /\ UNCHANGED <<queueVars, disturbed>>
  BY DEF HandlerSettles
<1> DEFINE q == RequestOf(op, e, 0)
<1>3. /\ exec'[e].pc = op /\ exec'[e].try = 0 /\ exec'[e].answer = "none"
      /\ \A x \in Executions : x # e => exec'[x] = exec[x]
      /\ wire' = wire \cup {q}
  BY <1>a, <1>1, <1>2, SendsTypes
<1>4. q.op = op /\ q.caller = e /\ q.try = 0
  BY DEF RequestOf
<1>5. \A x \in Executions : Holds(x)' <=> Holds(x)
  BY <1>2 DEF Holds, queueVars
<1>6. e[1] \notin disturbed => Holds(e)
  BY <1>2, <1>a DEF Ownership, Entitled, Standing
<1>7. \A u \in wire : u.op \in Calling /\ u.caller = e => e[1] \in disturbed
  BY <1>2, <1>a DEF Ownership, Reports, Waits, Calling
<1> HIDE DEF q
<1>8. ASSUME NEW x \in Executions PROVE Entitled(x)'
  <2>1. Entitled(x)
    BY <1>a DEF Ownership
  <2>2. CASE x = e
    BY <1>2, <1>3, <1>5, <1>6, <2>2 DEF Entitled
  <2>3. CASE x # e
    BY <1>2, <1>3, <1>5, <2>1, <2>3 DEF Entitled, Standing
  <2> QED BY <2>2, <2>3
<1>9. ASSUME NEW u \in wire' PROVE Reports(u)'
  <2> SUFFICES ASSUME u.op \in Calling, u.caller[1] \notin disturbed PROVE Reports(u)'
    BY <1>2 DEF Reports
  <2>1. CASE u = q
    BY <1>2, <1>3, <1>4, <1>5, <1>6, <1>7, <2>1 DEF Reports, Waits
  <2>2. CASE u # q
    <3>1. u \in wire /\ Reports(u) /\ u.caller \in Executions
      BY <1>3, <1>a, <2>2, MessageIs DEF Ownership
    <3>2. u.caller # e
      BY <1>7, <3>1
    <3> QED BY <1>2, <1>3, <1>4, <1>5, <3>1, <3>2 DEF Reports, Waits
  <2> QED BY <2>1, <2>2
<1> QED BY <1>8, <1>9 DEF Ownership

\* complete() or fail() ends the attempt; its execution learns of it.
LEMMA OutcomeOwns == ASSUME OwnerInv, NEW r \in wire, ServesOutcome(r) PROVE Ownership'
<1>a. /\ Shape /\ WorkerTypes /\ PollsWhileRunning /\ Ownership /\ \A k \in Jobs : Placed(k)
      /\ job \in [Jobs -> JobFields]
  BY LivesAre DEF OwnerInv, Shape, QueueTypeOK
<1> DEFINE e == r.caller
<1>1. /\ r.op \in Calling /\ wire' = wire \ {r} /\ disturbed' = disturbed
      /\ e \in Executions /\ e[1] \in Jobs
  BY <1>a, MessageIs, ExecutionIs DEF ServesOutcome
<1>2. /\ \A x \in Executions : x # e => exec'[x] = exec[x]
      /\ exec'[e].pc = exec[e].pc /\ exec'[e].try = exec[e].try
      /\ exec'[e].answer = IF Waits(r) THEN IF ActiveSlots(e[1]) = {} THEN "refused" ELSE "ok"
                                       ELSE exec[e].answer
  BY <1>a, ServesOutcomeTypes
<1>3. \A k \in Jobs : k # e[1] => job'[k] = job[k]
  <2>1. CASE Complete(e[1])
    BY <1>a, <1>1, <2>1 DEF Complete
  <2>2. CASE Fail(e[1])
    BY <1>a, <1>1, <2>2, FailBodyOthers DEF Fail
  <2>3. CASE UNCHANGED queueVars
    BY <2>3 DEF queueVars
  <2> QED BY <2>1, <2>2, <2>3 DEF ServesOutcome
<1>4. e[1] \notin disturbed =>
        /\ Holds(e) /\ ActiveSlots(e[1]) # {}
        /\ exec[e].pc = "over" \/ (Waits(r) /\ exec[e].answer = "none")
        /\ \A u \in wire : u.op \in Calling /\ u.caller = e => u = r
  <2> SUFFICES ASSUME e[1] \notin disturbed
               PROVE  /\ Holds(e) /\ ActiveSlots(e[1]) # {}
                      /\ exec[e].pc = "over" \/ (Waits(r) /\ exec[e].answer = "none")
                      /\ \A u \in wire : u.op \in Calling /\ u.caller = e => u = r
    OBVIOUS
  <2>1. /\ Holds(e)
        /\ exec[e].pc = "over" \/ (Waits(r) /\ exec[e].answer = "none")
        /\ \A u \in wire : u.op \in Calling /\ u.caller = e => u = r
    BY <1>1, <1>a DEF Ownership, Reports
  <2>2. ActiveSlots(e[1]) # {}
    BY <1>1, <1>a, <2>1 DEF Holds, Placed
  <2> QED BY <2>1, <2>2
<1> HIDE DEF e
<1>5. \A x \in Executions : x[1] = e[1] /\ e[1] \notin disturbed /\ x # e => ~Holds(x)
  <2> SUFFICES ASSUME NEW x \in Executions, x[1] = e[1], e[1] \notin disturbed, x # e, Holds(x)
               PROVE  FALSE
    OBVIOUS
  <2>1. x[2] = e[2]
    BY <1>4 DEF Holds
  <2> QED BY <1>1, <2>1, ExecutionIs
<1>6. ASSUME NEW x \in Executions PROVE Entitled(x)'
  <2> SUFFICES ASSUME x[1] \notin disturbed PROVE Entitled(x)'
    BY <1>1 DEF Entitled
  <2>1. /\ Standing(x) => Holds(x)
        /\ exec[x].pc \in Calling => exec[x].answer # "refused"
    BY <1>a DEF Ownership, Entitled
  <2>2. CASE x = e
    <3>1. ~Standing(x)' /\ (exec'[x].pc \in Calling => exec'[x].answer # "refused")
      BY <1>1, <1>2, <1>4, <2>2 DEF Standing, Calling, Waits, e
    <3> QED BY <3>1 DEF Entitled
  <2>3. CASE x # e /\ x[1] = e[1]
    <3>1. ~Holds(x) /\ exec'[x] = exec[x]
      BY <1>2, <1>5, <2>3
    <3> QED BY <2>1, <3>1 DEF Entitled, Standing
  <2>4. CASE x[1] # e[1]
    <3>1. exec'[x] = exec[x] /\ (Holds(x)' <=> Holds(x))
      BY <1>2, <1>3, <2>4, ExecutionIs DEF Holds
    <3> QED BY <2>1, <3>1 DEF Entitled, Standing
  <2> QED BY <2>2, <2>3, <2>4
<1>7. ASSUME NEW u \in wire' PROVE Reports(u)'
  <2> SUFFICES ASSUME u.op \in Calling, u.caller[1] \notin disturbed PROVE Reports(u)'
    BY <1>1 DEF Reports
  <2>1. u \in wire /\ u # r /\ Reports(u) /\ Holds(u.caller) /\ u.caller \in Executions
    BY <1>1, <1>a, MessageIs DEF Ownership, Reports
  <2>2. u.caller[1] # e[1]
    <3> SUFFICES ASSUME u.caller[1] = e[1] PROVE FALSE
      OBVIOUS
    <3>1. u.caller = e
      BY <1>5, <2>1
    <3> QED BY <1>4, <2>1, <3>1
  <2>3. exec'[u.caller] = exec[u.caller] /\ (Holds(u.caller)' <=> Holds(u.caller))
    BY <1>2, <1>3, <2>1, <2>2, ExecutionIs DEF Holds
  <2> QED BY <1>1, <2>1, <2>3 DEF Reports, Waits
<1> QED BY <1>6, <1>7 DEF Ownership

LEMMA OwnershipStep == OwnerInv /\ [Next]_vars => Ownership'
<1> SUFFICES ASSUME OwnerInv, [Next]_vars PROVE Ownership'
  OBVIOUS
<1>a. WorkerTypes /\ PollsWhileRunning /\ Shape /\ Ownership
  BY DEF OwnerInv
<1>b. job' = job => \A e \in Executions : Holds(e)' <=> Holds(e)
  BY DEF Holds
<1>1. ASSUME NEW w \in Workers, Run(w) \/ Stop(w) \/ \E l \in Loops : PollFires(w, l)
      PROVE  Ownership'
  <2>1. /\ UNCHANGED <<exec, disturbed, job>>
        /\ \A u \in wire' : u \in wire \/ u.op = "claim"
    BY <1>1 DEF Run, Stop, PollFires, RequestOf, queueVars
  <2> QED BY <1>a, <1>b, <2>1, QuietStep DEF Calling
<1>2. ASSUME NEW w \in Workers, StopReturns(w) PROVE Ownership'
  <2>1. UNCHANGED <<wire, disturbed, job>>
    BY <1>2 DEF StopReturns, queueVars
  <2> QED BY <1>2, <1>a, <1>b, <2>1, StopReturnsTypes, QuietStep
<1>3. ASSUME NEW w \in Workers, Killed(w) PROVE Ownership'
  <2>1. Exits(w) /\ wire' \subseteq Messages /\ UNCHANGED <<wire, disturbed, job>>
    BY <1>3, <1>a DEF Killed, queueVars, WorkerTypes
  <2> QED BY <1>a, <1>b, <2>1, ExitsTypes, QuietStep
<1>4. ASSUME NEW w \in Workers, NEW l \in Loops, ClaimGivenUp(w, l) PROVE Ownership'
  <2>1. UNCHANGED <<disturbed, job>>
    BY <1>4 DEF ClaimGivenUp, queueVars
  <2>2. /\ \A u \in wire' : u.op = "claim" \/ u \in wire
        /\ \A e \in Executions : exec'[e] = exec[e] \/ exec'[e] = Over
    BY <1>4, <1>a, ClaimGivenUpTypes
  <2> QED BY <1>a, <1>b, <2>1, <2>2, QuietStep DEF Calling
<1>5. ASSUME NEW r \in wire, ServesNothing(r) PROVE Ownership'
  <2>1. UNCHANGED <<exec, disturbed, job>> /\ wire' \subseteq wire
    BY <1>5 DEF ServesNothing, queueVars
  <2> QED BY <1>a, <1>b, <2>1, QuietStep
<1>6. ASSUME NEW e \in Executions, ProcessJob(e) PROVE Ownership'
  <2>1. UNCHANGED <<wire, disturbed, job>>
    BY <1>6 DEF ProcessJob, queueVars
  <2> QED BY <1>6, <1>a, <1>b, <2>1, ProcessJobTypes, QuietStep
<1>7. ASSUME NEW e \in Executions, CallReturns(e) PROVE Ownership'
  <2>1. UNCHANGED <<wire, disturbed, job>>
    BY <1>7 DEF CallReturns, queueVars
  <2> QED BY <1>7, <1>a, <1>b, <2>1, CallReturnsTypes, QuietStep
<1>8. ASSUME NEW e \in Executions, NEW left \in SUBSET wire, Rejects(e, left),
             exec[e].pc \in Calling, e[1] \in disturbed', disturbed \subseteq disturbed',
             UNCHANGED queueVars
      PROVE  Ownership'
  <2>1. /\ \A x \in Executions : x # e => exec'[x] = exec[x] \/ exec'[x] = Over
        /\ \A u \in wire' : u \in wire \/ u.caller = e
    BY <1>8, <1>a, RejectsTypes
  <2>2. job' = job
    BY <1>8 DEF queueVars
  <2> QED BY <1>8, <1>a, <1>b, <2>1, <2>2, QuietStep
<1>9. ASSUME NEW e \in Executions, CallRefused(e) PROVE Ownership'
  <2>1. e[1] \in disturbed
    BY <1>9, <1>a DEF CallRefused, Ownership, Entitled
  <2> QED BY <1>8, <1>9, <2>1 DEF CallRefused
<1>10. ASSUME NEW e \in Executions, CallGivenUp(e) PROVE Ownership'
  <2>1. PICK left \in {wire, wire \ {RequestOf(exec[e].pc, e, exec[e].try)}} : Rejects(e, left)
    BY <1>10 DEF CallGivenUp
  <2>2. /\ left \in SUBSET wire /\ exec[e].pc \in Calling /\ UNCHANGED queueVars
        /\ e[1] \in disturbed' /\ disturbed \subseteq disturbed'
    BY <1>10 DEF CallGivenUp
  <2> QED BY <1>8, <2>1, <2>2
<1>11. ASSUME NEW e \in Executions, Beats(e) PROVE Ownership'
  <2>1. UNCHANGED <<exec, wire, disturbed>> /\ e[1] \in Jobs /\ Heartbeat(e[1])
    BY <1>11, ExecutionIs DEF Beats, workerVars
  <2>2. \A x \in Executions : Holds(x)' <=> Holds(x)
    BY <1>a, <2>1, BeatsSteady, ExecutionIs DEF Holds
  <2> QED BY <1>a, <2>1, <2>2, QuietStep
<1>12. CASE UNCHANGED vars
  <2>1. UNCHANGED <<exec, wire, disturbed, job>>
    BY <1>12 DEF vars, queueVars, workerVars
  <2> QED BY <1>a, <1>b, <2>1, QuietStep
<1>13. ASSUME NEW w \in Workers,
              \/ Run(w) \/ Stop(w) \/ StopReturns(w) \/ Killed(w)
              \/ \E l \in Loops : PollFires(w, l) \/ ClaimGivenUp(w, l)
       PROVE  Ownership'
  BY <1>1, <1>2, <1>3, <1>4, <1>13
<1>14. ASSUME NEW r \in wire, ServesClaim(r) \/ ServesNothing(r) \/ ServesOutcome(r)
       PROVE  Ownership'
  BY <1>5, <1>14, ClaimOwns, OutcomeOwns
<1>15. ASSUME NEW e \in Executions,
              \/ ProcessJob(e) \/ HandlerSettles(e) \/ Beats(e)
              \/ CallReturns(e) \/ CallRefused(e) \/ CallGivenUp(e)
       PROVE  Ownership'
  BY <1>6, <1>7, <1>9, <1>10, <1>11, <1>15, SettlesOwns
<1> QED BY <1>12, <1>13, <1>14, <1>15, ReapsOwns, ServerOwns DEF Next

-----------------------------------------------------------------------------
\* Attempts only go up, and nothing is re-queued by hand.
Grown(x, y) ==
    /\ y.attempts >= x.attempts
    /\ y.status = "none" => x.status = "none" /\ y.attempts = x.attempts

LEMMA FieldsGrow ==
    ASSUME NEW x \in JobFields
    PROVE  /\ Grown(x, x)
           /\ Grown(x, [x EXCEPT !.hb = "fresh"]) /\ Grown(x, [x EXCEPT !.hb = "silent"])
           /\ Grown(x, [x EXCEPT !.due = TRUE])
           /\ Grown(x, [x EXCEPT !.status = "waiting"])
           /\ Grown(x, [x EXCEPT !.status = "delayed", !.due = FALSE])
           /\ Grown(x, [x EXCEPT !.status = "failed"])
           /\ Grown(x, [x EXCEPT !.status = "completed"])
           /\ Grown(x, [x EXCEPT !.status = "active", !.attempts = @ + 1])
BY DEF JobFields, Grown

\* What the workers' steps do to the queue.
LEMMA QueueStepsAre ==
    ASSUME WorkerTypes, [Next]_vars
    PROVE  \/ UNCHANGED queueVars \/ PromoteDelayed \/ ReaperFires \/ ReaperVisits
           \/ \E j \in Jobs : \/ Add(j, FALSE) \/ HeartbeatAges(j) \/ RunAtPasses(j)
                              \/ Heartbeat(j) \/ Claim(j) \/ Complete(j) \/ FailBody(j)
<1>1. ASSUME NEW w \in Workers,
             \/ Run(w) \/ Stop(w) \/ StopReturns(w) \/ Killed(w)
             \/ \E l \in Loops : PollFires(w, l) \/ ClaimGivenUp(w, l)
      PROVE  UNCHANGED queueVars
  BY <1>1 DEF Run, Stop, StopReturns, Killed, PollFires, ClaimGivenUp
<1>2. ASSUME NEW r \in wire, ServesClaim(r) \/ ServesNothing(r) \/ ServesOutcome(r)
      PROVE  \/ UNCHANGED queueVars
             \/ \E j \in Jobs : Claim(j) \/ Complete(j) \/ FailBody(j)
  BY <1>2, MessageIs, ExecutionIs DEF ServesClaim, ServesNothing, ServesOutcome, Fail
<1>3. ASSUME NEW e \in Executions,
             \/ ProcessJob(e) \/ HandlerSettles(e) \/ Beats(e)
             \/ CallReturns(e) \/ CallRefused(e) \/ CallGivenUp(e)
      PROVE  UNCHANGED queueVars \/ \E j \in Jobs : Heartbeat(j)
  BY <1>3, ExecutionIs DEF ProcessJob, HandlerSettles, Beats, CallReturns, CallRefused,
                           CallGivenUp
<1> QED BY <1>1, <1>2, <1>3 DEF Next, Reaps, ServerOnly, vars

LEMMA AttemptsGrow ==
    ASSUME WorkerTypes, Shape, [Next]_vars,
           \A k \in Jobs : job[k].status = "none" => job[k].attempts = 0
    PROVE  requeues' = requeues /\ \A k \in Jobs : Grown(job[k], job'[k])
<1>a. job \in [Jobs -> JobFields] /\ \A k \in Jobs : job[k] \in JobFields
  BY DEF Shape, QueueTypeOK
<1>1. CASE UNCHANGED queueVars
  BY <1>1, <1>a, FieldsGrow DEF queueVars
<1>2. ASSUME NEW j \in Jobs, Add(j, FALSE)
      PROVE  requeues' = requeues /\ \A k \in Jobs : Grown(job[k], job'[k])
  <2>1. PICK t \in {clock, clock + 1} \ {0} :
          job' = [job EXCEPT ![j] = [NewJob EXCEPT !.status = "waiting", !.due = TRUE, !.born = t]]
    BY <1>2 DEF Add
  <2>2. job[j].attempts = 0
    BY <1>2 DEF Add, Created
  <2>3. job'[j].status = "waiting" /\ job'[j].attempts = 0
    BY <1>a, <2>1 DEF NewJob
  <2>4. \A k \in Jobs : k # j => job'[k] = job[k]
    BY <1>a, <2>1
  <2>5. Grown(job[j], job'[j])
    BY <2>2, <2>3 DEF Grown
  <2> QED BY <1>2, <1>a, <2>4, <2>5, FieldsGrow DEF Add
<1>3. ASSUME NEW j \in Jobs, HeartbeatAges(j) \/ RunAtPasses(j) \/ Heartbeat(j)
      PROVE  requeues' = requeues /\ \A k \in Jobs : Grown(job[k], job'[k])
  <2>1. \A k \in Jobs : \/ job'[k] = job[k]
                        \/ job'[k] = [job[k] EXCEPT !.hb = "fresh"]
                        \/ job'[k] = [job[k] EXCEPT !.hb = "silent"]
                        \/ job'[k] = [job[k] EXCEPT !.due = TRUE]
    BY <1>3, <1>a DEF Heartbeat, HeartbeatAges, RunAtPasses
  <2>2. requeues' = requeues
    BY <1>3 DEF Heartbeat, HeartbeatAges, RunAtPasses
  <2>3. ASSUME NEW k \in Jobs PROVE Grown(job[k], job'[k])
    <3>1. job[k] \in JobFields
      BY <1>a
    <3> DEFINE x == job[k]
    <3> HIDE DEF x
    <3> QED BY <2>1, <3>1, FieldsGrow DEF x
  <2> QED BY <2>2, <2>3
<1>4. CASE PromoteDelayed
  <2>1. \A k \in Jobs : job'[k] = job[k] \/ job'[k] = [job[k] EXCEPT !.status = "waiting"]
    BY <1>4, <1>a DEF PromoteDelayed
  <2> QED BY <1>4, <1>a, <2>1, FieldsGrow DEF PromoteDelayed
<1>5. ASSUME NEW j \in Jobs, FailBody(j) \/ Complete(j)
      PROVE  requeues' = requeues /\ \A k \in Jobs : Grown(job[k], job'[k])
  <2>1. \A k \in Jobs : \/ job'[k] = job[k]
                        \/ job'[k] = [job[k] EXCEPT !.status = "delayed", !.due = FALSE]
                        \/ job'[k] = [job[k] EXCEPT !.status = "failed"]
                        \/ job'[k] = [job[k] EXCEPT !.status = "completed"]
    BY <1>5, <1>a DEF FailBody, RetryLater, Exhaust, Complete
  <2>2. requeues' = requeues
    BY <1>5 DEF FailBody, Complete
  <2>3. ASSUME NEW k \in Jobs PROVE Grown(job[k], job'[k])
    <3>1. job[k] \in JobFields
      BY <1>a
    <3> DEFINE x == job[k]
    <3> HIDE DEF x
    <3> QED BY <2>1, <3>1, FieldsGrow DEF x
  <2> QED BY <2>2, <2>3
<1>6. ASSUME NEW j \in Jobs, Claim(j)
      PROVE  requeues' = requeues /\ \A k \in Jobs : Grown(job[k], job'[k])
  <2>1. \A k \in Jobs : \/ job'[k] = job[k]
                        \/ job'[k] = [job[k] EXCEPT !.status = "active", !.attempts = @ + 1]
    BY <1>6, <1>a DEF Claim
  <2> QED BY <1>6, <1>a, <2>1, FieldsGrow DEF Claim
<1>7. CASE ReaperFires
  BY <1>7, <1>a, FieldsGrow DEF ReaperFires
<1>8. CASE ReaperVisits
  BY <1>5, <1>8 DEF ReaperVisits, Shape, ReapingOccupied
<1> QED BY <1>1, <1>2, <1>3, <1>4, <1>5, <1>6, <1>7, <1>8, QueueStepsAre

\* A step that starts no execution and registers none.
LEMMA RegisteredStays ==
    ASSUME OwnerInv, [Next]_vars, Shape',
           \A w \in Workers, j \in Jobs : activeJobs'[w][j] \in {0, activeJobs[w][j]},
           \A e \in Executions : \/ exec'[e].by = exec[e].by /\ exec'[e].pc = exec[e].pc
                                 \/ exec'[e].by = exec[e].by /\ exec[e].pc \notin {"none", "over"}
                                 \/ exec'[e].pc = "over"
    PROVE  Registered'
<1>a. /\ WorkerTypes /\ Shape /\ Registered
      /\ \A k \in Jobs : job[k].attempts \in Nat /\ job'[k].attempts \in Nat
      /\ \A w \in Workers, j \in Jobs : activeJobs[w][j] \in Nat
  <2>1. WorkerTypes /\ Shape /\ Registered
    BY DEF OwnerInv
  <2>2. \A k \in Jobs : job[k].attempts \in Nat /\ job'[k].attempts \in Nat
    BY <2>1 DEF Shape, QueueTypeOK, JobFields
  <2>3. \A w \in Workers, j \in Jobs : activeJobs[w][j] \in Nat
    BY <2>1 DEF WorkerTypes
  <2> QED BY <2>1, <2>2, <2>3
<1>1. \A k \in Jobs : Grown(job[k], job'[k])
  BY <1>a, AttemptsGrow DEF Registered
<1>2. \A j \in Jobs : job'[j].status = "none" => job'[j].attempts = 0
  BY <1>1, <1>a DEF Registered, Grown
<1>3. ASSUME NEW w \in Workers, NEW j \in Jobs PROVE activeJobs'[w][j] <= job'[j].attempts
  <2>1. activeJobs[w][j] <= job[j].attempts
    BY <1>a DEF Registered
  <2>2. job[j].attempts <= job'[j].attempts
    BY <1>1, <1>a DEF Grown
  <2>3. activeJobs'[w][j] <= activeJobs[w][j] /\ activeJobs'[w][j] \in Nat
    BY <1>a
  <2> QED BY <1>a, <2>1, <2>2, <2>3
<1>4. ASSUME NEW w \in Workers, NEW e \in Executions, activeJobs'[w][e[1]] = e[2],
             exec'[e].pc \notin {"none", "over"}
      PROVE  WorkerOf(e)' = w
  <2>1. e[2] # 0 /\ e[1] \in Jobs
    BY ExecutionIs
  <2>2. activeJobs[w][e[1]] = e[2]
    BY <1>4, <2>1
  <2>3. exec'[e].by = exec[e].by /\ exec[e].pc \notin {"none", "over"}
    BY <1>4
  <2> QED BY <1>a, <2>2, <2>3 DEF Registered, WorkerOf
<1>5. ASSUME NEW e \in Executions, exec'[e].pc \notin {"none", "over"}
      PROVE  e[2] <= job'[e[1]].attempts
  <2>1. e[1] \in Jobs /\ e[2] \in Nat
    BY ExecutionIs
  <2>2. e[2] <= job[e[1]].attempts
    BY <1>5, <1>a DEF Registered
  <2>3. job[e[1]].attempts <= job'[e[1]].attempts
    BY <1>1, <1>a, <2>1 DEF Grown
  <2> QED BY <1>a, <2>1, <2>2, <2>3
<1> QED BY <1>2, <1>3, <1>4, <1>5 DEF Registered

\* One worker's entries are emptied.
LEMMA RegistryEmptied ==
    ASSUME WorkerTypes, NEW w \in Workers,
           activeJobs' = [activeJobs EXCEPT ![w] = [j \in Jobs |-> 0]]
    PROVE  \A v \in Workers, j \in Jobs : activeJobs'[v][j] \in {0, activeJobs[v][j]}
BY DEF WorkerTypes

\* A claim's answer is about an attempt nobody has registered.
LEMMA ClaimRegistered ==
    ASSUME OwnerInv, [Next]_vars, Shape', NEW r \in wire, ServesClaim(r) PROVE Registered'
<1>a. /\ WorkerTypes /\ Shape /\ Registered
      /\ \A k \in Jobs : job[k].attempts \in Nat /\ job'[k].attempts \in Nat
      /\ \A w \in Workers, j \in Jobs : activeJobs[w][j] \in Nat
  BY DEF OwnerInv, Shape, QueueTypeOK, JobFields, WorkerTypes
<1>1. \A k \in Jobs : Grown(job[k], job'[k])
  BY <1>a, AttemptsGrow DEF Registered
<1>2. \A j \in Jobs : job'[j].status = "none" => job'[j].attempts = 0
  BY <1>1, <1>a DEF Registered, Grown
<1>3. activeJobs' = activeJobs
  BY DEF ServesClaim
<1>4. ASSUME NEW w \in Workers, NEW j \in Jobs PROVE activeJobs'[w][j] <= job'[j].attempts
  <2>1. activeJobs[w][j] <= job[j].attempts
    BY <1>a DEF Registered
  <2>2. job[j].attempts <= job'[j].attempts
    BY <1>1, <1>a DEF Grown
  <2> QED BY <1>3, <1>a, <2>1, <2>2
<1>5. PICK j \in Jobs : Claim(j) /\ HandsOut(j, r.caller[1], r.caller[2], r)
  BY DEF ServesClaim
<1> DEFINE given == <<j, job[j].attempts + 1>>
<1>6. \A e \in Executions : e # given => exec'[e] = exec[e]
  <2> DEFINE coming == [NoExec EXCEPT !.pc = "coming", !.by = <<r.caller[1], r.caller[2]>>]
  <2>1. exec' = [exec EXCEPT ![given] = coming] \/ exec' = [exec EXCEPT ![given] = Over]
    BY <1>5 DEF HandsOut
  <2> HIDE DEF coming, given
  <2> QED BY <1>a, <2>1 DEF WorkerTypes
<1>7. ASSUME NEW w \in Workers, NEW e \in Executions, activeJobs'[w][e[1]] = e[2],
             exec'[e].pc \notin {"none", "over"}
      PROVE  WorkerOf(e)' = w
  <2>1. e # given
    <3> SUFFICES ASSUME e = given PROVE FALSE
      OBVIOUS
    <3>1. e[1] = j /\ e[2] = job[j].attempts + 1
      OBVIOUS
    <3>2. activeJobs[w][j] <= job[j].attempts
      BY <1>a DEF Registered
    <3> QED BY <1>3, <1>7, <1>a, <3>1, <3>2
  <2>2. exec'[e] = exec[e]
    BY <1>6, <2>1
  <2> QED BY <1>3, <1>7, <1>a, <2>2 DEF Registered, WorkerOf
<1>8. ASSUME NEW e \in Executions, exec'[e].pc \notin {"none", "over"}
      PROVE  e[2] <= job'[e[1]].attempts
  <2>1. e[1] \in Jobs /\ e[2] \in Nat
    BY ExecutionIs
  <2>2. CASE e = given
    <3>1. e[1] = j /\ e[2] = job[j].attempts + 1
      BY <2>2
    <3>2. Claim(j)
      BY <1>5
    <3>3. job'[j].attempts = job[j].attempts + 1
      BY <1>a, <3>2 DEF Claim, Shape, QueueTypeOK, JobFields
    <3> QED BY <1>a, <3>1, <3>3
  <2>3. CASE e # given
    <3>1. e[2] <= job[e[1]].attempts
      BY <1>6, <1>8, <1>a, <2>3 DEF Registered
    <3>2. job[e[1]].attempts <= job'[e[1]].attempts
      BY <1>1, <1>a, <2>1 DEF Grown
    <3> QED BY <1>a, <2>1, <3>1, <3>2
  <2> QED BY <2>2, <2>3
<1> QED BY <1>2, <1>4, <1>7, <1>8 DEF Registered

\* processJob() registers the attempt it was given, which is not above attempts.
LEMMA ProcessRegistered ==
    ASSUME OwnerInv, [Next]_vars, Shape', NEW e \in Executions, ProcessJob(e)
    PROVE  Registered'
<1>a. /\ WorkerTypes /\ Shape /\ Registered /\ PollsWhileRunning
      /\ \A k \in Jobs : job[k].attempts \in Nat /\ job'[k].attempts \in Nat
      /\ \A w \in Workers, j \in Jobs : activeJobs[w][j] \in Nat
      /\ activeJobs \in [Workers -> [Jobs -> Nat]]
  BY DEF OwnerInv, Shape, QueueTypeOK, JobFields, WorkerTypes
<1>1. /\ job' = job /\ exec[e].pc = "coming" /\ exec'[e].pc = "handler"
      /\ exec'[e].by = exec[e].by
      /\ \A x \in Executions : x # e => exec'[x] = exec[x]
  BY <1>a, ProcessJobTypes DEF ProcessJob, queueVars
<1>2. /\ WorkerOf(e) \in Workers /\ e[1] \in Jobs /\ e[2] \in Nat \ {0}
      /\ WorkerOf(e)' = WorkerOf(e)
  BY <1>1, <1>a, ExecIs, ExecutionIs DEF WorkerOf
<1>3. activeJobs' = [activeJobs EXCEPT ![WorkerOf(e)][e[1]] = e[2]]
  BY DEF ProcessJob
<1>4. \A w \in Workers, j \in Jobs :
        activeJobs'[w][j] = IF w = WorkerOf(e) /\ j = e[1] THEN e[2] ELSE activeJobs[w][j]
  BY <1>2, <1>3, <1>a
<1>b. e[2] <= job[e[1]].attempts
  BY <1>1, <1>a DEF Registered
<1>5. \A w \in Workers, j \in Jobs : activeJobs'[w][j] <= job'[j].attempts
  BY <1>1, <1>4, <1>a, <1>b DEF Registered
<1>6. ASSUME NEW w \in Workers, NEW x \in Executions, activeJobs'[w][x[1]] = x[2],
             exec'[x].pc \notin {"none", "over"}
      PROVE  WorkerOf(x)' = w
  <2>0. x[1] \in Jobs
    BY ExecutionIs
  <2>1. CASE w = WorkerOf(e) /\ x[1] = e[1]
    <3>1. x = e
      BY <1>4, <1>6, <2>0, <2>1, ExecutionIs
    <3> QED BY <1>2, <2>1, <3>1
  <2>2. CASE ~(w = WorkerOf(e) /\ x[1] = e[1])
    <3>1. activeJobs[w][x[1]] = x[2]
      BY <1>4, <1>6, <2>0, <2>2
    <3>2. exec'[x].by = exec[x].by /\ exec[x].pc \notin {"none", "over"}
      BY <1>1, <1>6
    <3> QED BY <1>a, <3>1, <3>2 DEF Registered, WorkerOf
  <2> QED BY <2>1, <2>2
<1>7. ASSUME NEW x \in Executions, exec'[x].pc \notin {"none", "over"}
      PROVE  x[2] <= job'[x[1]].attempts
  <2>1. CASE x = e
    BY <1>1, <1>b, <2>1
  <2>2. CASE x # e
    BY <1>1, <1>7, <1>a, <2>2 DEF Registered
  <2> QED BY <2>1, <2>2
<1> QED BY <1>1, <1>5, <1>6, <1>7, <1>a DEF Registered

LEMMA RegisteredStep == OwnerInv /\ [Next]_vars /\ Shape' => Registered'
<1> SUFFICES ASSUME OwnerInv, [Next]_vars, Shape' PROVE Registered'
  OBVIOUS
<1>a. WorkerTypes /\ PollsWhileRunning
  BY DEF OwnerInv
<1>0. CASE UNCHANGED <<activeJobs, exec>>
  BY <1>0, RegisteredStays
<1>1. ASSUME NEW w \in Workers, StopReturns(w) PROVE Registered'
  BY <1>1, <1>a, StopReturnsTypes, RegistryEmptied, RegisteredStays DEF StopReturns
<1>2. ASSUME NEW w \in Workers, Exits(w), wire' \subseteq Messages PROVE Registered'
  <2>1. \A v \in Workers, j \in Jobs : activeJobs'[v][j] \in {0, activeJobs[v][j]}
    BY <1>2, <1>a, RegistryEmptied DEF Exits
  <2>2. \A e \in Executions : exec'[e] = exec[e] \/ exec'[e] = Over
    BY <1>2, <1>a, ExitsTypes
  <2> QED BY <2>1, <2>2, EndStates, RegisteredStays
<1>3. ASSUME NEW w \in Workers, NEW l \in Loops, ClaimGivenUp(w, l) PROVE Registered'
  <2>1. \A e \in Executions : exec'[e] = exec[e] \/ exec'[e] = Over
    BY <1>3, <1>a, ClaimGivenUpTypes
  <2>2. activeJobs' = activeJobs
    BY <1>3 DEF ClaimGivenUp
  <2> QED BY <2>1, <2>2, EndStates, RegisteredStays
<1>4. ASSUME NEW e \in Executions, HandlerSettles(e) PROVE Registered'
  <2>1. PICK op \in Calling : Sends(e, op, 0, wire)
    BY <1>4 DEF HandlerSettles
  <2>2. exec[e].pc = "handler" /\ activeJobs' = activeJobs
    BY <1>4 DEF HandlerSettles
  <2>3. exec'[e].by = exec[e].by /\ \A x \in Executions : x # e => exec'[x] = exec[x]
    BY <1>a, <2>1, <2>2, SendsTypes
  <2> QED BY <2>2, <2>3, RegisteredStays
<1>5. ASSUME NEW r \in wire, ServesOutcome(r) PROVE Registered'
  <2>1. activeJobs' = activeJobs
    BY <1>5 DEF ServesOutcome
  <2>2. \A e \in Executions : exec'[e].by = exec[e].by /\ exec'[e].pc = exec[e].pc
    BY <1>5, <1>a, ServesOutcomeTypes
  <2> QED BY <2>1, <2>2, RegisteredStays
<1>6. ASSUME NEW e \in Executions, CallReturns(e) PROVE Registered'
  <2>1. \A x \in Executions : exec'[x] = IF x = e THEN Over ELSE exec[x]
    BY <1>6, <1>a, CallReturnsTypes
  <2>2. \A v \in Workers, j \in Jobs : activeJobs'[v][j] \in {0, activeJobs[v][j]}
    BY <1>6, <1>a DEF CallReturns, CleansUp, WorkerTypes
  <2> QED BY <2>1, <2>2, EndStates, RegisteredStays
<1>7. ASSUME NEW e \in Executions, NEW left \in SUBSET wire, Rejects(e, left),
             exec[e].pc \in Calling
      PROVE  Registered'
  <2>1. CASE Exits(WorkerOf(e)) /\ wire' = left
    <3>1. WorkerOf(e) \in Workers
      BY <1>7, <1>a, ExecIs DEF Calling
    <3>2. wire' \subseteq Messages
      BY <1>a, <2>1 DEF WorkerTypes
    <3> QED BY <1>2, <2>1, <3>1, <3>2
  <2>2. CASE UNCHANGED activeJobs
    <3>1. /\ \A x \in Executions : x # e => exec'[x] = exec[x] \/ exec'[x] = Over
          /\ exec'[e].by = exec[e].by \/ exec'[e] = Over
      BY <1>7, <1>a, RejectsTypes
    <3> QED BY <1>7, <2>2, <3>1, EndStates, RegisteredStays DEF Calling
  <2> QED BY <1>7, <2>1, <2>2 DEF Rejects
<1>8. ASSUME NEW e \in Executions, CallRefused(e) \/ CallGivenUp(e) PROVE Registered'
  <2>1. CASE CallRefused(e)
    BY <1>7, <2>1 DEF CallRefused
  <2>2. CASE CallGivenUp(e)
    <3>1. PICK left \in {wire, wire \ {RequestOf(exec[e].pc, e, exec[e].try)}} : Rejects(e, left)
      BY <2>2 DEF CallGivenUp
    <3>2. left \in SUBSET wire /\ exec[e].pc \in Calling
      BY <2>2 DEF CallGivenUp
    <3> QED BY <1>7, <3>1, <3>2
  <2> QED BY <1>8, <2>1, <2>2
<1>9. ASSUME NEW w \in Workers,
             \/ Run(w) \/ Stop(w) \/ StopReturns(w) \/ Killed(w)
             \/ \E l \in Loops : PollFires(w, l) \/ ClaimGivenUp(w, l)
      PROVE  Registered'
  <2>1. Killed(w) => wire' \subseteq Messages
    BY <1>a DEF Killed, WorkerTypes
  <2> QED BY <1>0, <1>1, <1>2, <1>3, <1>9, <2>1 DEF Run, Stop, Killed, PollFires
<1>10. ASSUME NEW r \in wire, ServesClaim(r) \/ ServesNothing(r) \/ ServesOutcome(r)
       PROVE  Registered'
  BY <1>0, <1>5, <1>10, ClaimRegistered DEF ServesNothing
<1>11. ASSUME NEW e \in Executions,
              \/ ProcessJob(e) \/ HandlerSettles(e) \/ Beats(e)
              \/ CallReturns(e) \/ CallRefused(e) \/ CallGivenUp(e)
       PROVE  Registered'
  BY <1>0, <1>4, <1>6, <1>8, <1>11, ProcessRegistered DEF Beats, workerVars
<1>12. CASE Reaps \/ ServerOnly \/ UNCHANGED vars
  BY <1>0, <1>12 DEF Reaps, ServerOnly, vars, workerVars
<1> QED BY <1>9, <1>10, <1>11, <1>12 DEF Next

-----------------------------------------------------------------------------
LEMMA OwnerHolds == Spec => []OwnerInv
<1>1. Init => Ownership /\ NeverRequeued
  BY EndStates DEF Init, InitQueue, Ownership, Entitled, Standing, Calling, NeverRequeued
<1>2. Init => Registered
  BY EndStates DEF Init, InitQueue, Registered, NewJob
<1>3. OwnerInv /\ [Next]_vars => NeverRequeued'
  BY AttemptsGrow DEF OwnerInv, Registered, NeverRequeued
<1>4. WorkerTypes /\ PollsWhileRunning /\ Shape /\ LifeInv /\ NeverRequeued
        /\ Ownership /\ Registered <=> OwnerInv
  BY DEF OwnerInv
<1> QED BY <1>1, <1>2, <1>3, <1>4, OwnershipStep, RegisteredStep, WorkerTypesHold,
           WorkersDriveTheQueue, ShapeHolds, LifeHolds, PTL DEF Spec

(* A handler runs only while the queue holds its job active for that very  *)
(* attempt, and no other handler runs the job, unless the reaper took it   *)
(* or a report of it was given up: not stop(), a second poll loop, nor a   *)
(* claim that was repeated or served late hands a job out twice.           *)
THEOREM HandlerOwnsJobHolds == Spec => []HandlerOwnsJob
<1>1. ASSUME OwnerInv PROVE HandlerOwnsJob
  <2> SUFFICES ASSUME NEW e \in Executions, exec[e].pc = "handler", e[1] \notin disturbed
               PROVE  /\ job[e[1]].status = "active"
                      /\ job[e[1]].attempts = e[2]
                      /\ Cardinality(ActiveSlots(e[1])) = 1
                      /\ \A x \in Executions : exec[x].pc = "handler" /\ x[1] = e[1] => x = e
    BY DEF HandlerOwnsJob
  <2>1. \A x \in Executions : exec[x].pc = "handler" /\ x[1] = e[1] => Holds(x)
    BY <1>1 DEF OwnerInv, Ownership, Entitled, Standing
  <2>2. \A x \in Executions : exec[x].pc = "handler" /\ x[1] = e[1] => x = e
    BY <2>1, ExecutionIs DEF Holds
  <2>3. \A j \in Jobs : Placed(j)
    BY <1>1, LivesAre DEF OwnerInv
  <2>4. PICK s \in Slots : ActiveSlots(e[1]) = {s}
    BY <2>1, <2>3, ExecutionIs DEF Placed, Holds
  <2> QED BY <2>1, <2>2, <2>4, FS_Singleton DEF Holds
<1> QED BY <1>1, OwnerHolds, PTL

(* A running handler's heartbeats end only with a stop() that has waited:  *)
(* an attempt of the same job that came before it, and shares its entry of *)
(* activeJobs, does not silence it.                                        *)
THEOREM HandlerKeepsBeatingHolds == Spec => HandlerKeepsBeating
<1> DEFINE Beating1 == \A e \in Executions :
             exec[e].pc = "handler" /\ exec'[e].pc = "handler" /\ exec[e].beats
             /\ ~exec'[e].beats
             => stopping'[WorkerOf(e)] < stopping[WorkerOf(e)]
<1>1. ASSUME OwnerInv, [Next]_vars PROVE Beating1
  <2> SUFFICES ASSUME NEW e \in Executions, exec[e].pc = "handler", exec'[e].pc = "handler",
                      exec[e].beats, ~exec'[e].beats
               PROVE  stopping'[WorkerOf(e)] < stopping[WorkerOf(e)]
    OBVIOUS
  <2>a. WorkerTypes /\ PollsWhileRunning /\ Registered
    BY <1>1 DEF OwnerInv
  <2>0. exec'[e] # exec[e] /\ exec'[e] # Over
    BY EndStates
  <2>1. ASSUME NEW w \in Workers, StopReturns(w)
        PROVE  stopping'[WorkerOf(e)] < stopping[WorkerOf(e)]
    <3>1. activeJobs[w][e[1]] = e[2]
      BY <2>0, <2>1 DEF StopReturns
    <3>2. WorkerOf(e) = w
      BY <2>a, <3>1 DEF Registered
    <3>3. stopping'[w] = stopping[w] - 1 /\ stopping[w] \in Nat
      BY <2>1, <2>a DEF StopReturns, WorkerTypes
    <3> QED BY <3>2, <3>3
  <2>2. ASSUME NEW w \in Workers,
               \/ Run(w) \/ Stop(w) \/ Killed(w)
               \/ \E l \in Loops : PollFires(w, l) \/ ClaimGivenUp(w, l)
        PROVE  FALSE
    <3>1. Killed(w) => wire' \subseteq Messages
      BY <2>a DEF Killed, WorkerTypes
    <3> QED BY <2>0, <2>2, <2>a, <3>1, ExitsTypes, ClaimGivenUpTypes
            DEF Run, Stop, Killed, PollFires
  <2>3. ASSUME NEW r \in wire, ServesClaim(r) PROVE FALSE
    <3>1. PICK j \in Jobs : HandsOut(j, r.caller[1], r.caller[2], r)
      BY <2>3 DEF ServesClaim
    <3> DEFINE coming == [NoExec EXCEPT !.pc = "coming", !.by = <<r.caller[1], r.caller[2]>>]
               given == <<j, job[j].attempts + 1>>
    <3>2. coming.pc = "coming"
      BY DEF NoExec
    <3>3. exec' = [exec EXCEPT ![given] = coming] \/ exec' = [exec EXCEPT ![given] = Over]
      BY <3>1 DEF HandsOut
    <3> HIDE DEF coming, given
    <3> QED BY <2>0, <2>a, <3>2, <3>3 DEF WorkerTypes
  <2>4. ASSUME NEW r \in wire, ServesNothing(r) \/ ServesOutcome(r) PROVE FALSE
    BY <2>0, <2>4, <2>a, ServesOutcomeTypes DEF ServesNothing
  <2>5. ASSUME NEW x \in Executions, ProcessJob(x) \/ HandlerSettles(x) \/ CallReturns(x)
        PROVE  FALSE
    <3>1. CASE ProcessJob(x)
      BY <2>0, <2>a, <3>1, ProcessJobTypes
    <3>2. CASE HandlerSettles(x)
      <4>1. PICK op \in Calling : Sends(x, op, 0, wire)
        BY <3>2 DEF HandlerSettles
      <4>2. exec'[x].pc = op /\ \A y \in Executions : y # x => exec'[y] = exec[y]
        BY <2>a, <3>2, <4>1, SendsTypes DEF HandlerSettles
      <4> QED BY <2>0, <4>1, <4>2 DEF Calling
    <3>3. CASE CallReturns(x)
      BY <2>0, <2>a, <3>3, CallReturnsTypes
    <3> QED BY <2>5, <3>1, <3>2, <3>3
  <2>6. ASSUME NEW x \in Executions, NEW left \in SUBSET wire, Rejects(x, left),
               exec[x].pc \in Calling
        PROVE  FALSE
    BY <2>0, <2>6, <2>a, RejectsTypes DEF Calling
  <2>7. ASSUME NEW x \in Executions, CallRefused(x) \/ CallGivenUp(x) PROVE FALSE
    <3>1. CASE CallRefused(x)
      BY <2>6, <3>1 DEF CallRefused
    <3>2. CASE CallGivenUp(x)
      <4>1. PICK left \in {wire, wire \ {RequestOf(exec[x].pc, x, exec[x].try)}} :
              Rejects(x, left)
        BY <3>2 DEF CallGivenUp
      <4>2. left \in SUBSET wire /\ exec[x].pc \in Calling
        BY <3>2 DEF CallGivenUp
      <4> QED BY <2>6, <4>1, <4>2
    <3> QED BY <2>7, <3>1, <3>2
  <2>8. ASSUME Reaps \/ ServerOnly \/ UNCHANGED vars \/ \E x \in Executions : Beats(x)
        PROVE  FALSE
    BY <2>0, <2>8 DEF Reaps, ServerOnly, Beats, vars, workerVars
  <2> QED BY <1>1, <2>1, <2>2, <2>3, <2>4, <2>5, <2>7, <2>8 DEF Next
<1>2. OwnerInv /\ [Next]_vars => [Beating1]_vars
  BY <1>1
<1>3. Spec => [][Beating1]_vars
  <2> HIDE DEF Beating1
  <2> QED BY <1>2, OwnerHolds, PTL DEF Spec
<1> QED BY <1>3 DEF HandlerKeepsBeating
=============================================================================
