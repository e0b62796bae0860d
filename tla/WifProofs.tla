----------------------------- MODULE WifProofs -----------------------------
(***************************************************************************)
(* Theorems about Wif for every value of its constants: however many       *)
(* completions share the cached token, a rejected one is forgotten and a   *)
(* good one kept, and every completion ends.                               *)
(***************************************************************************)
EXTENDS Wif, SequenceTheorems, TLAPS

USE DEF server, cache

\* Before the first completion nothing is cached, held or minted.
LEMMA InitInvariant == Init => IInv
BY WifAssumption
DEF Init, IInv, TypeOK, ExpiryIsNotLate, AnswerIsFresh, PresentedIsMinted,
    DroppedIsNotCached, ExchangeIsNeeded, Tokens, Call, Idle, At, InExchange,
    NoToken, Nobody

\* A completion that moves on to another record keeps the calls typed.
LEMMA SetTyped ==
  ASSUME TypeOK, NEW c \in Caller, NEW next \in Call', Set(c, next), Call \subseteq Call'
  PROVE  /\ call' \in [Caller -> Call']
         /\ call'[c] = next
         /\ \A d \in Caller \ {c} : call'[d] = call[d]
BY DEF TypeOK, Set

\* While the server mints nothing, the tokens are what they were.
LEMMA SameTokens ==
  ASSUME UNCHANGED minted
  PROVE  Tokens' = Tokens /\ Call' = Call
BY DEF Tokens, Call

\* As long as the token in an answer is no caller's and not the cached one, a
\* step of another caller that mints nothing keeps it so.
LEMMA FreshKept ==
  ASSUME IInv, NEW c \in Caller, \A d \in Caller \ {c} : call'[d] = call[d],
         ~At(c, "answer")', At(c, "exchange")' => call'[c].issued <= clock,
         call'[c].token \in {call[c].token, token, NoToken},
         UNCHANGED <<minted, clock>>, token' \in {token, NoToken},
         rejected' \subseteq rejected \cup {call[c].token}
  PROVE  AnswerIsFresh'
<1>1. Tokens' = Tokens /\ NoToken \notin Tokens
  BY DEF Tokens, NoToken, IInv, TypeOK
<1>2. ASSUME NEW d \in Caller, At(d, "answer")'
      PROVE  /\ d # c /\ At(d, "answer") /\ call'[d] = call[d]
             /\ call[d].token \in Tokens \ (rejected \cup {token})
             /\ call[d].issued + call[d].expires <= minted[call[d].token]
             /\ \A e \in Caller \ {d} : call[e].token # call[d].token
  BY <1>2 DEF IInv, AnswerIsFresh, At
<1>3. ASSUME NEW d \in Caller, At(d, "answer")', NEW e \in Caller \ {d}
      PROVE  call'[e].token # call'[d].token
  <2>1. CASE e = c
    BY <1>1, <1>2, <1>3, <2>1
  <2>2. CASE e # c
    BY <1>2, <1>3, <2>2
  <2>3. QED
    BY <2>1, <2>2
<1>4. ASSUME NEW d \in Caller, At(d, "answer")'
      PROVE  /\ call'[d].token \in Tokens' \ (rejected' \cup {token'})
             /\ call'[d].issued + call'[d].expires <= minted'[call'[d].token]
  BY <1>1, <1>2, <1>4
<1>5. ASSUME NEW d \in Caller, At(d, "exchange")'
      PROVE  call'[d].issued <= clock'
  BY <1>5 DEF IInv, AnswerIsFresh, At
<1>6. QED
  BY <1>3, <1>4, <1>5 DEF AnswerIsFresh

\* A new completion holds no token.
LEMMA CompleteStep ==
  ASSUME IInv, NEW c \in Caller, Complete(c)
  PROVE  IInv'
<1>1. Tokens' = Tokens /\ Call' = Call
  BY SameTokens DEF Complete
<1>2. [Idle EXCEPT !.pc = "token"] \in Call'
  BY <1>1 DEF Idle, Call
<1>3. /\ call' \in [Caller -> Call']
      /\ call'[c] = [Idle EXCEPT !.pc = "token"]
      /\ \A d \in Caller \ {c} : call'[d] = call[d]
  BY <1>1, <1>2, SetTyped DEF Complete, IInv
<1>4. call'[c].pc = "token" /\ call'[c].token = NoToken /\ call[c].pc = "idle"
  BY <1>3 DEF Idle, Complete, At
<1>5. TypeOK'
  BY <1>1, <1>3, <1>4 DEF Complete, IInv, TypeOK, InExchange
<1>6. AnswerIsFresh'
  BY <1>3, <1>4, FreshKept DEF Complete, At
<1>7. PresentedIsMinted'
  BY <1>1, <1>3, <1>4 DEF Complete, IInv, PresentedIsMinted, At
<1>8. QED
  BY <1>5, <1>6, <1>7
  DEF Complete, IInv, ExpiryIsNotLate, DroppedIsNotCached, ExchangeIsNeeded, Cached

\* accessToken presents the cached token, or takes the lock for an exchange.
LEMMA AccessTokenStep ==
  ASSUME IInv, NEW c \in Caller, AccessToken(c)
  PROVE  IInv'
<1>1. Tokens' = Tokens /\ Call' = Call /\ call[c] \in Call
  BY SameTokens DEF AccessToken, IInv, TypeOK
<1>2. CASE /\ Cached
           /\ Set(c, [call[c] EXCEPT !.pc = "send", !.token = token, !.cached = TRUE])
           /\ UNCHANGED holder
  <2> DEFINE next == [call[c] EXCEPT !.pc = "send", !.token = token, !.cached = TRUE]
  <2>1. next \in Call' /\ next.pc = "send" /\ next.token = token
    BY <1>1 DEF Call, IInv, TypeOK
  <2>2. /\ call' \in [Caller -> Call']
        /\ call'[c] = next
        /\ \A d \in Caller \ {c} : call'[d] = call[d]
    BY <1>1, <1>2, <2>1, SetTyped DEF IInv
  <2>3. token \in Tokens
    BY <1>2 DEF Cached, IInv, TypeOK
  <2> HIDE DEF next
  <2>4. TypeOK'
    BY <1>1, <1>2, <2>1, <2>2 DEF AccessToken, At, IInv, TypeOK, InExchange
  <2>5. AnswerIsFresh'
    BY <2>1, <2>2, FreshKept DEF AccessToken, At
  <2>6. PresentedIsMinted'
    BY <1>1, <2>1, <2>2, <2>3 DEF AccessToken, IInv, PresentedIsMinted, At
  <2>7. QED
    BY <1>2, <2>4, <2>5, <2>6
    DEF AccessToken, IInv, ExpiryIsNotLate, DroppedIsNotCached, ExchangeIsNeeded, Cached
<1>3. CASE ~Cached /\ Set(c, [call[c] EXCEPT !.pc = "identity"]) /\ holder' = c
  <2> DEFINE next == [call[c] EXCEPT !.pc = "identity"]
  <2>1. next \in Call' /\ next.pc = "identity" /\ next.token = call[c].token
    BY <1>1 DEF Call, InExchange
  <2>2. /\ call' \in [Caller -> Call']
        /\ call'[c] = next
        /\ \A d \in Caller \ {c} : call'[d] = call[d]
    BY <1>1, <1>3, <2>1, SetTyped DEF IInv
  <2> HIDE DEF next
  <2>3. TypeOK'
    BY <1>1, <1>3, <2>1, <2>2, WifAssumption
    DEF AccessToken, At, IsFree, IInv, TypeOK, InExchange
  <2>4. AnswerIsFresh'
    BY <2>1, <2>2, FreshKept DEF AccessToken, At
  <2>5. PresentedIsMinted'
    BY <1>1, <2>1, <2>2 DEF AccessToken, IInv, PresentedIsMinted, At
  <2>6. QED
    BY <1>3, <2>3, <2>4, <2>5
    DEF AccessToken, IInv, ExpiryIsNotLate, DroppedIsNotCached, ExchangeIsNeeded, Cached
<1>4. QED
  BY <1>2, <1>3 DEF AccessToken

\* A completion ends, from outside an exchange or giving the lock back, and the
\* cache stays or loses a token no longer wanted.
LEMMA EndStep ==
  ASSUME IInv, NEW c \in Caller, End(c), UNCHANGED <<clock, server, rejected>>,
         \/ UNCHANGED <<cache, dropped>>
         \/ DropIfCached(call[c].token) /\ dropped' = dropped \cup {call[c].token}
              /\ call[c].token \in rejected,
         \/ call[c].pc \in InExchange /\ holder' = Nobody
         \/ call[c].pc \notin InExchange /\ UNCHANGED holder
  PROVE  IInv'
<1>1. Tokens' = Tokens /\ Call' = Call
  BY SameTokens
<1>2. Idle \in Call'
  BY <1>1 DEF Idle, Call
<1>3. /\ call' \in [Caller -> Call']
      /\ call'[c] = Idle
      /\ \A d \in Caller \ {c} : call'[d] = call[d]
  BY <1>1, <1>2, SetTyped DEF End, IInv
<1>4. Idle.pc = "idle" /\ Idle.token = NoToken
  BY DEF Idle
<1>5. token' \in {token, NoToken} /\ (token' # token => token' = NoToken /\ expiry' = 0)
      /\ (token' = token => expiry' = expiry)
  BY DEF DropIfCached, IInv, TypeOK
<1>6. TypeOK'
  BY <1>1, <1>3, <1>4, <1>5, WifAssumption DEF IInv, TypeOK, InExchange
<1>7. AnswerIsFresh'
  BY <1>3, <1>4, <1>5, FreshKept DEF At
<1>8. PresentedIsMinted'
  BY <1>1, <1>3, <1>4 DEF IInv, PresentedIsMinted, At
<1>9. ExpiryIsNotLate' /\ ExchangeIsNeeded'
  BY <1>5, WifAssumption DEF IInv, ExpiryIsNotLate, ExchangeIsNeeded, Cached
<1>10. DroppedIsNotCached'
  <2>1. NoToken \notin rejected
    BY DEF IInv, TypeOK, Tokens, NoToken
  <2>2. CASE UNCHANGED <<cache, dropped>>
    BY <2>2 DEF IInv, DroppedIsNotCached
  <2>3. CASE /\ DropIfCached(call[c].token) /\ dropped' = dropped \cup {call[c].token}
             /\ call[c].token \in rejected
    BY <2>1, <2>3 DEF IInv, TypeOK, DroppedIsNotCached, DropIfCached
  <2>4. QED
    BY <2>2, <2>3
<1>11. QED
  BY <1>6, <1>7, <1>8, <1>9, <1>10 DEF IInv

\* The identity token: none, or a request leaves at a known time.
LEMMA IdentityTokenStep ==
  ASSUME IInv, NEW c \in Caller, IdentityToken(c)
  PROVE  IInv'
<1>1. Tokens' = Tokens /\ Call' = Call /\ call[c] \in Call /\ call[c].pc = "identity"
  BY SameTokens DEF IdentityToken, IInv, TypeOK, At
<1>2. CASE GiveUp(c)
  BY <1>1, <1>2, EndStep DEF GiveUp, Unlock, IdentityToken, InExchange
<1>3. CASE /\ Set(c, [call[c] EXCEPT !.pc = "exchange", !.issued = clock])
           /\ UNCHANGED holder
  <2> DEFINE next == [call[c] EXCEPT !.pc = "exchange", !.issued = clock]
  <2>1. /\ next \in Call' /\ next.pc = "exchange" /\ next.token = call[c].token
        /\ next.issued = clock
    BY <1>1 DEF Call, InExchange, IInv, TypeOK
  <2>2. /\ call' \in [Caller -> Call']
        /\ call'[c] = next
        /\ \A d \in Caller \ {c} : call'[d] = call[d]
    BY <1>1, <1>3, <2>1, SetTyped DEF IInv
  <2> HIDE DEF next
  <2>3. TypeOK'
    BY <1>1, <1>3, <2>1, <2>2 DEF IdentityToken, IInv, TypeOK, InExchange
  <2>4. clock <= clock
    BY DEF IInv, TypeOK
  <2>5. AnswerIsFresh'
    BY <2>1, <2>2, <2>4, FreshKept DEF IdentityToken, At
  <2>6. PresentedIsMinted'
    BY <1>1, <2>1, <2>2 DEF IdentityToken, IInv, PresentedIsMinted, At
  <2>7. QED
    BY <1>3, <2>3, <2>5, <2>6
    DEF IdentityToken, IInv, ExpiryIsNotLate, DroppedIsNotCached, ExchangeIsNeeded, Cached
<1>4. QED
  BY <1>2, <1>3 DEF IdentityToken

\* The server mints a token unlike all before it.
LEMMA MintStep ==
  ASSUME IInv, NEW c \in Caller, Mint(c)
  PROVE  IInv'
<1>1. PICK life \in Lifetime :
        /\ minted' = Append(minted, clock + life)
        /\ Set(c, [call[c] EXCEPT !.pc = "answer", !.token = Len(minted'), !.expires = life])
  BY DEF Mint
<1> DEFINE n == Len(minted')
           next == [call[c] EXCEPT !.pc = "answer", !.token = Len(minted'), !.expires = life]
<1>2. /\ life \in Nat /\ clock \in Nat /\ minted \in Seq(Nat)
      /\ call[c] \in Call /\ call[c].pc = "exchange" /\ call[c].issued <= clock
  BY WifAssumption DEF IInv, TypeOK, AnswerIsFresh, Mint, At
<1>3. /\ minted' \in Seq(Nat) /\ n = Len(minted) + 1 /\ minted'[n] = clock + life
      /\ \A t \in Tokens : minted'[t] = minted[t]
  BY <1>1, <1>2 DEF Tokens
<1>4. n \in Tokens' \ Tokens /\ Tokens \subseteq Tokens' /\ NoToken # n
  BY <1>2, <1>3 DEF Tokens, NoToken
<1>5. Call \subseteq Call'
  BY <1>4 DEF Call
<1>6. /\ next \in Call' /\ next.pc = "answer" /\ next.token = n /\ next.expires = life
      /\ next.issued = call[c].issued
  BY <1>2, <1>4 DEF Call, InExchange
<1>7. /\ call' \in [Caller -> Call']
      /\ call'[c] = next
      /\ \A d \in Caller \ {c} : call'[d] = call[d]
  BY <1>1, <1>5, <1>6, SetTyped DEF IInv
<1> HIDE DEF n, next
<1>8. accepted' \subseteq Tokens'
  BY <1>4 DEF Mint, IInv, TypeOK, n
<1>9. TypeOK'
  BY <1>2, <1>3, <1>4, <1>6, <1>7, <1>8 DEF Mint, IInv, TypeOK, InExchange
<1>10. AnswerIsFresh'
  <2>1. \A d \in Caller : call[d].token # n
    BY <1>4 DEF IInv, TypeOK, Call
  <2>2. n \notin rejected \cup {token}
    BY <1>4 DEF IInv, TypeOK
  <2>3. ASSUME NEW d \in Caller, At(d, "answer")'
        PROVE  /\ call'[d].token \in Tokens' \ (rejected' \cup {token'})
               /\ call'[d].issued + call'[d].expires <= minted'[call'[d].token]
               /\ \A e \in Caller \ {d} : call'[e].token # call'[d].token
    <3>1. CASE d = c
      <4>1. call[c].issued \in Nat /\ call[c].issued + life <= clock + life
        BY <1>2 DEF Call
      <4>2. QED
        BY <1>3, <1>4, <1>6, <1>7, <2>1, <2>2, <3>1, <4>1 DEF Mint
    <3>2. CASE d # c
      <4>1. /\ At(d, "answer") /\ call'[d] = call[d]
            /\ call[d].token \in Tokens \ (rejected \cup {token})
            /\ call[d].issued + call[d].expires <= minted[call[d].token]
            /\ \A e \in Caller \ {d} : call[e].token # call[d].token
        BY <1>7, <2>3, <3>2 DEF IInv, AnswerIsFresh, At
      <4>2. call[d].token # n
        BY <2>1
      <4>3. \A e \in Caller \ {d} : call'[e].token # call'[d].token
        BY <1>6, <1>7, <4>1, <4>2
      <4>4. QED
        BY <1>3, <1>4, <4>1, <4>3 DEF Mint
    <3>3. QED
      BY <3>1, <3>2
  <2>4. ASSUME NEW d \in Caller, At(d, "exchange")'
        PROVE  call'[d].issued <= clock'
    BY <1>6, <1>7, <2>4 DEF Mint, IInv, AnswerIsFresh, At
  <2>5. QED
    BY <2>3, <2>4 DEF AnswerIsFresh
<1>11. PresentedIsMinted'
  BY <1>4, <1>6, <1>7 DEF Mint, IInv, PresentedIsMinted, At
<1>12. ExpiryIsNotLate' /\ DroppedIsNotCached' /\ ExchangeIsNeeded'
  BY <1>3 DEF Mint, IInv, TypeOK, ExpiryIsNotLate, DroppedIsNotCached, ExchangeIsNeeded, Cached
<1>13. QED
  BY <1>9, <1>10, <1>11, <1>12 DEF IInv

\* The answer is cached until the token's time and no longer.
LEMMA ExchangedStep ==
  ASSUME IInv, NEW c \in Caller, Exchanged(c)
  PROVE  IInv'
<1> DEFINE next == [call[c] EXCEPT !.pc = "send", !.cached = FALSE,
                                   !.issued = 0, !.expires = 0]
<1>1. /\ Tokens' = Tokens /\ Call' = Call /\ call[c] \in Call
      /\ At(c, "answer") /\ holder = c
  BY SameTokens DEF Exchanged, IInv, TypeOK, At, InExchange
<1>2. /\ call[c].token \in Tokens \ rejected
      /\ Expiry(c) <= minted[call[c].token]
      /\ \A d \in Caller \ {c} : call[d].token # call[c].token
  BY <1>1 DEF IInv, AnswerIsFresh, Expiry
<1>3. next \in Call' /\ next.pc = "send" /\ next.token = call[c].token
  BY <1>1 DEF Call
<1>4. /\ call' \in [Caller -> Call']
      /\ call'[c] = next
      /\ \A d \in Caller \ {c} : call'[d] = call[d]
  BY <1>1, <1>3, SetTyped DEF Exchanged, IInv
<1> HIDE DEF next
<1>5. \A d \in Caller \ {c} : call[d].pc \notin InExchange
  BY <1>1 DEF IInv, TypeOK
<1>6. Expiry(c) \in Nat
  BY <1>1 DEF Expiry, Call
<1>7. TypeOK'
  <2>1. token' \in Tokens' /\ token' # NoToken /\ expiry' \in Nat
    BY <1>1, <1>2, <1>6 DEF Exchanged, Tokens, NoToken, IInv, TypeOK
  <2>2. \A d \in Caller : call'[d].pc \notin InExchange
    BY <1>3, <1>4, <1>5 DEF InExchange
  <2>3. holder' = Nobody
    BY DEF Exchanged, Unlock
  <2>4. \A d \in Caller : call'[d].pc \in InExchange <=> holder' = d
    BY <2>2, <2>3, WifAssumption
  <2>5. QED
    BY <1>1, <1>4, <2>1, <2>3, <2>4 DEF Exchanged, IInv, TypeOK
<1>8. AnswerIsFresh'
  BY <1>3, <1>4, <1>5 DEF AnswerIsFresh, At, InExchange
<1>9. PresentedIsMinted'
  BY <1>1, <1>2, <1>3, <1>4 DEF Exchanged, IInv, PresentedIsMinted, At
<1>10. ExpiryIsNotLate' /\ DroppedIsNotCached' /\ ExchangeIsNeeded'
  BY <1>2 DEF Exchanged, Unlock, IInv, TypeOK, ExpiryIsNotLate, DroppedIsNotCached,
              ExchangeIsNeeded
<1>11. QED
  BY <1>7, <1>8, <1>9, <1>10 DEF IInv

\* The Messages API turns a token down.
LEMMA RejectedStep ==
  ASSUME IInv, NEW c \in Caller, Rejected(c)
  PROVE  IInv'
<1> DEFINE next == [call[c] EXCEPT !.pc = "rejected"]
<1>1. /\ Tokens' = Tokens /\ Call' = Call /\ call[c] \in Call
      /\ call[c].pc = "send" /\ call[c].token \in Tokens
  BY SameTokens DEF Rejected, IInv, TypeOK, PresentedIsMinted, At
<1>2. next \in Call' /\ next.pc = "rejected" /\ next.token = call[c].token
  BY <1>1 DEF Call
<1>3. /\ call' \in [Caller -> Call']
      /\ call'[c] = next
      /\ \A d \in Caller \ {c} : call'[d] = call[d]
  BY <1>1, <1>2, SetTyped DEF Rejected, IInv
<1> HIDE DEF next
<1>4. TypeOK'
  BY <1>1, <1>2, <1>3 DEF Rejected, IInv, TypeOK, InExchange
<1>5. AnswerIsFresh'
  BY <1>2, <1>3, FreshKept DEF Rejected, At
<1>6. PresentedIsMinted'
  BY <1>1, <1>2, <1>3 DEF Rejected, IInv, PresentedIsMinted, At
<1>7. QED
  BY <1>4, <1>5, <1>6
  DEF Rejected, IInv, ExpiryIsNotLate, DroppedIsNotCached, ExchangeIsNeeded, Cached

\* invalidate drops the token it is about, and the completion ends or retries.
LEMMA InvalidateStep ==
  ASSUME IInv, NEW c \in Caller, Invalidate(c)
  PROVE  IInv'
<1>1. /\ Tokens' = Tokens /\ Call' = Call /\ call[c] \in Call
      /\ call[c].pc = "rejected" /\ call[c].token \in rejected
  BY SameTokens DEF Invalidate, IInv, TypeOK, PresentedIsMinted, At
<1>2. CASE End(c)
  BY <1>1, <1>2, EndStep DEF Invalidate, InExchange
<1>3. CASE Set(c, [call[c] EXCEPT !.pc = "token", !.retry = TRUE])
  <2> DEFINE next == [call[c] EXCEPT !.pc = "token", !.retry = TRUE]
  <2>1. next \in Call' /\ next.pc = "token" /\ next.token = call[c].token
    BY <1>1 DEF Call
  <2>2. /\ call' \in [Caller -> Call']
        /\ call'[c] = next
        /\ \A d \in Caller \ {c} : call'[d] = call[d]
    BY <1>1, <1>3, <2>1, SetTyped DEF IInv
  <2> HIDE DEF next
  <2>3. /\ token' \in {token, NoToken} /\ (token' # token => token' = NoToken /\ expiry' = 0)
        /\ (token' = token => expiry' = expiry)
    BY DEF Invalidate, DropIfCached, IInv, TypeOK
  <2>4. TypeOK'
    BY <1>1, <2>1, <2>2, <2>3 DEF Invalidate, IInv, TypeOK, InExchange
  <2>5. AnswerIsFresh'
    BY <2>1, <2>2, <2>3, FreshKept DEF Invalidate, At
  <2>6. PresentedIsMinted'
    BY <1>1, <2>1, <2>2 DEF Invalidate, IInv, PresentedIsMinted, At
  <2>7. DroppedIsNotCached'
    <3>1. NoToken \notin rejected
      BY DEF IInv, TypeOK, Tokens, NoToken
    <3>2. QED
      BY <1>1, <3>1 DEF Invalidate, DropIfCached, IInv, TypeOK, DroppedIsNotCached
  <2>8. ExpiryIsNotLate' /\ ExchangeIsNeeded'
    BY <2>3 DEF Invalidate, IInv, ExpiryIsNotLate, ExchangeIsNeeded, Cached
  <2>9. QED
    BY <2>4, <2>5, <2>6, <2>7, <2>8 DEF IInv
<1>4. QED
  BY <1>2, <1>3 DEF Invalidate

\* Time passes, and the server has a change of mind.
LEMMA WorldStep ==
  ASSUME IInv, Revoke \/ Tick \/ UNCHANGED vars
  PROVE  IInv'
<1>1. /\ Tokens' = Tokens /\ Call' = Call /\ UNCHANGED <<cache, holder, call, rejected, dropped, minted>>
      /\ accepted' \subseteq accepted /\ clock' \in Nat /\ clock' >= clock
  BY SameTokens DEF Revoke, Tick, vars, IInv, TypeOK
<1>2. TypeOK'
  BY <1>1 DEF IInv, TypeOK
<1>3. AnswerIsFresh'
  <2>1. \A c \in Caller : At(c, "exchange") => call[c].issued <= clock'
    BY <1>1 DEF IInv, TypeOK, Call, AnswerIsFresh
  <2>2. QED
    BY <1>1, <2>1 DEF IInv, AnswerIsFresh, At
<1>4. ExchangeIsNeeded'
  <2>1. token' = token /\ expiry' = expiry /\ holder' = holder
    BY <1>1
  <2>2. expiry \in Nat /\ clock \in Nat /\ clock' \in Nat /\ clock' >= clock /\ Margin \in Nat
    BY <1>1, WifAssumption DEF IInv, TypeOK
  <2>3. \A e, m, k, l \in Nat : l >= k /\ e - l >= m => e - k >= m
    OBVIOUS
  <2>4. expiry - clock' >= Margin => expiry - clock >= Margin
    BY <2>2, <2>3
  <2>5. QED
    BY <2>1, <2>4 DEF IInv, ExchangeIsNeeded, Cached
<1>5. QED
  BY <1>1, <1>2, <1>3, <1>4
  DEF IInv, ExpiryIsNotLate, PresentedIsMinted, DroppedIsNotCached, At

\* Every step preserves the invariant.
LEMMA InvariantStep == IInv /\ [Next]_vars => IInv'
<1> SUFFICES ASSUME IInv, [Next]_vars PROVE IInv'
  OBVIOUS
<1>1. CASE Revoke \/ Tick \/ UNCHANGED vars
  BY <1>1, WorldStep
<1>2. ASSUME NEW c \in Caller,
             Complete(c) \/ AccessToken(c) \/ Exchange(c) \/ Send(c) \/ Invalidate(c)
      PROVE  IInv'
  <2>1. CASE ExchangeFails(c)
    <3>1. call[c].pc \in InExchange
      BY <2>1 DEF ExchangeFails, At, InExchange
    <3>2. QED
      BY <2>1, <3>1, EndStep DEF ExchangeFails, GiveUp, Unlock
  <2>2. CASE Answered(c)
    <3>1. call[c].pc \notin InExchange
      BY <2>2 DEF Answered, At, InExchange
    <3>2. QED
      BY <2>2, <3>1, EndStep DEF Answered
  <2>3. QED
    BY <1>2, <2>1, <2>2, CompleteStep, AccessTokenStep, IdentityTokenStep, MintStep,
       ExchangedStep, RejectedStep, InvalidateStep
    DEF Exchange, Send
<1>3. QED
  BY <1>1, <1>2 DEF Next

-----------------------------------------------------------------------------
\* However completions, exchanges, 401s and revocations interleave, an exchange
\* under the lock brings a token that is new to every completion, and the cache
\* does not outlive its token (accessToken, exchange, invalidate).
THEOREM WifInvariant == Spec => []IInv
<1>1. Init => IInv
  BY InitInvariant
<1>2. IInv /\ [Next]_vars => IInv'
  BY InvariantStep
<1>3. QED
  BY <1>1, <1>2, PTL DEF Spec

\* A token a completion has dropped after a 401 is never cached nor presented
\* again (Complete, invalidate).
THEOREM ForgetsRejected == Spec => RejectedIsForgotten
<1> DEFINE A == /\ token' \notin dropped'
                /\ \A c \in Caller :
                     ~At(c, "send") /\ At(c, "send")' => call'[c].token \notin dropped
<1>1. ASSUME IInv, IInv', Next PROVE A
  <2>1. token' \notin dropped' /\ token \notin dropped
    BY <1>1 DEF IInv, DroppedIsNotCached
  <2>2. ASSUME NEW c \in Caller, ~At(c, "send"), At(c, "send")'
        PROVE  call'[c].token \notin dropped
    <3>1. call \in [Caller -> Call] /\ dropped \subseteq rejected
      BY <1>1 DEF IInv, TypeOK
    <3>2. PICK d \in Caller :
            \/ Complete(d) \/ AccessToken(d) \/ Exchange(d) \/ Send(d) \/ Invalidate(d)
      BY <1>1, <2>2 DEF Next, Revoke, Tick, At
    <3>3. ASSUME NEW next, Set(d, next), c # d
          PROVE  FALSE
      BY <2>2, <3>1, <3>3 DEF Set, At
    <3>4. CASE AccessToken(d)
      BY <2>1, <2>2, <3>1, <3>3, <3>4 DEF AccessToken, Set, At, Call
    <3>5. CASE Exchanged(d)
      <4>1. At(d, "answer") /\ call[d].token \notin rejected
        BY <1>1, <3>5 DEF Exchanged, IInv, AnswerIsFresh
      <4>2. QED
        BY <2>2, <3>1, <3>3, <3>5, <4>1 DEF Exchanged, Set, At, Call
    <3>6. CASE Complete(d) \/ IdentityToken(d) \/ Mint(d) \/ ExchangeFails(d)
                 \/ Send(d) \/ Invalidate(d)
      <4>1. call'[d].pc # "send" /\ (c # d => call'[c] = call[c])
        <5>1. CASE Complete(d) \/ Answered(d) \/ ExchangeFails(d)
          BY <3>1, <5>1 DEF Complete, Answered, ExchangeFails, GiveUp, End, Set, Idle
        <5>2. CASE IdentityToken(d)
          <6>1. CASE GiveUp(d)
            BY <3>1, <6>1 DEF GiveUp, End, Set, Idle
          <6>2. CASE Set(d, [call[d] EXCEPT !.pc = "exchange", !.issued = clock])
            BY <3>1, <6>2 DEF Set, Call
          <6>3. QED
            BY <5>2, <6>1, <6>2 DEF IdentityToken
        <5>3. CASE Mint(d)
          <6>1. PICK life \in Lifetime :
                  Set(d, [call[d] EXCEPT !.pc = "answer", !.token = Len(minted'), !.expires = life])
            BY <5>3 DEF Mint
          <6>2. QED
            BY <3>1, <6>1 DEF Set, Call
        <5>4. CASE Rejected(d) \/ Invalidate(d)
          <6>1. CASE Set(d, [call[d] EXCEPT !.pc = "rejected"])
            BY <3>1, <6>1 DEF Set, Call
          <6>2. CASE Set(d, [call[d] EXCEPT !.pc = "token", !.retry = TRUE])
            BY <3>1, <6>2 DEF Set, Call
          <6>3. CASE End(d)
            BY <3>1, <6>3 DEF End, Set, Idle
          <6>4. QED
            BY <5>4, <6>1, <6>2, <6>3 DEF Rejected, Invalidate
        <5>5. QED
          BY <3>6, <5>1, <5>2, <5>3, <5>4 DEF Send
      <4>2. QED
        BY <2>2, <4>1 DEF At
    <3>7. QED
      BY <3>2, <3>4, <3>5, <3>6 DEF Exchange
  <2>3. QED
    BY <2>1, <2>2
<1>2. ASSUME IInv, IInv', [Next]_vars PROVE [A]_vars
  BY <1>1, <1>2
<1>3. Spec => []IInv
  BY WifInvariant
<1>4. IInv /\ [Next]_vars => IInv'
  BY InvariantStep
<1>5. QED
  BY <1>2, <1>3, <1>4, PTL DEF Spec, RejectedIsForgotten, A

\* Only a token seen rejected, or at the end of its time, gives way to another
\* (invalidate, accessToken).
THEOREM KeepsToken == Spec => TokenIsKept
<1> DEFINE A == token' # token /\ token # NoToken => token \in rejected \/ ~Cached
<1>1. ASSUME IInv, Next PROVE A
  <2>1. ASSUME NEW c \in Caller, Exchanged(c) PROVE ~Cached
    <3>1. holder = c /\ holder # Nobody
      BY <1>1, <2>1, WifAssumption DEF Exchanged, IInv, TypeOK, At, InExchange
    <3>2. QED
      BY <1>1, <3>1 DEF IInv, ExchangeIsNeeded
  <2>2. ASSUME NEW c \in Caller, Invalidate(c), token' # token
        PROVE  token \in rejected
    BY <1>1, <2>2 DEF Invalidate, DropIfCached, IInv, PresentedIsMinted
  <2>3. QED
    BY <1>1, <2>1, <2>2
    DEF Next, Complete, AccessToken, Exchange, Send, IdentityToken, Mint, ExchangeFails,
        Answered, Rejected, Revoke, Tick
<1>2. ASSUME IInv, [Next]_vars PROVE [A]_vars
  BY <1>1, <1>2
<1>3. Spec => []IInv
  BY WifInvariant
<1>4. QED
  BY <1>2, <1>3, PTL DEF Spec, TokenIsKept, A
-----------------------------------------------------------------------------
(* Every completion ends.                                                  *)

\* What a completion comes to from a step, if it does not end.
Follows ==
  [token |-> {"send", "identity"}, identity |-> {"exchange"}, exchange |-> {"answer"},
   answer |-> {"send"}, send |-> {"rejected"}, rejected |-> {}]

\* A completion at a step of its first attempt, or of its second.
Here(c, pc, retry) == At(c, pc) /\ call[c].retry = retry

After(c, pc, retry) ==
  \/ At(c, "idle")
  \/ pc = "rejected" /\ retry = FALSE /\ Here(c, "token", TRUE)
  \/ \E q \in Follows[pc] : Here(c, q, retry)

\* Whatever a caller does at a step, it is past that step; the others stay.
LEMMA StepGoesOn ==
  ASSUME IInv, NEW c \in Caller, Request(c) \/ Locked(c)
  PROVE  /\ \A d \in Caller \ {c} : call'[d] = call[d]
         /\ \A pc \in DOMAIN Follows, retry \in BOOLEAN :
              Here(c, pc, retry) => After(c, pc, retry)'
<1>1. call \in [Caller -> Call]
  BY DEF IInv, TypeOK
<1>2. ASSUME NEW next, Set(c, next)
      PROVE  \A d \in Caller \ {c} : call'[d] = call[d]
  BY <1>1, <1>2 DEF Set
<1>3. ASSUME call'[c].pc \in Follows[call[c].pc], call'[c].retry = call[c].retry
      PROVE  \A pc \in DOMAIN Follows, retry \in BOOLEAN :
               Here(c, pc, retry) => After(c, pc, retry)'
  BY <1>3 DEF Here, After, At
<1>4. CASE End(c)
  <2>1. At(c, "idle")'
    BY <1>1, <1>4 DEF End, Set, Idle, At
  <2>2. QED
    BY <1>2, <1>4, <2>1 DEF End, After
<1>5. CASE AccessToken(c)
  <2>1. call[c].pc = "token" /\ \E next : Set(c, next)
    BY <1>5 DEF AccessToken, At
  <2>2. ASSUME Set(c, [call[c] EXCEPT !.pc = "send", !.token = token, !.cached = TRUE])
        PROVE  call'[c].pc = "send" /\ call'[c].retry = call[c].retry
    BY <1>1, <2>2 DEF Set, Call
  <2>3. ASSUME Set(c, [call[c] EXCEPT !.pc = "identity"])
        PROVE  call'[c].pc = "identity" /\ call'[c].retry = call[c].retry
    BY <1>1, <2>3 DEF Set, Call
  <2>4. call'[c].pc \in {"send", "identity"} /\ call'[c].retry = call[c].retry
    BY <1>5, <2>2, <2>3 DEF AccessToken
  <2>5. QED
    BY <1>2, <1>3, <2>1, <2>4 DEF Follows
<1>6. CASE IdentityToken(c)
  <2>1. CASE Set(c, [call[c] EXCEPT !.pc = "exchange", !.issued = clock])
    <3>1. call[c].pc = "identity" /\ call'[c].pc = "exchange" /\ call'[c].retry = call[c].retry
      BY <1>1, <1>6, <2>1 DEF IdentityToken, Set, At, Call
    <3>2. QED
      BY <1>2, <1>3, <2>1, <3>1 DEF Follows
  <2>2. QED
    BY <1>4, <1>6, <2>1 DEF IdentityToken, GiveUp
<1>7. CASE Mint(c)
  <2>1. call[c].pc = "exchange" /\ call'[c].pc \in {"answer"} /\ call'[c].retry = call[c].retry
    BY <1>1, <1>7 DEF Mint, Set, At, Call
  <2>2. QED
    BY <1>2, <1>3, <1>7, <2>1 DEF Mint, Follows
<1>8. CASE Exchanged(c)
  <2>1. call[c].pc = "answer" /\ call'[c].pc \in {"send"} /\ call'[c].retry = call[c].retry
    BY <1>1, <1>8 DEF Exchanged, Set, At, Call
  <2>2. QED
    BY <1>2, <1>3, <1>8, <2>1 DEF Exchanged, Follows
<1>9. CASE Rejected(c)
  <2>1. call[c].pc = "send" /\ call'[c].pc \in {"rejected"} /\ call'[c].retry = call[c].retry
    BY <1>1, <1>9 DEF Rejected, Set, At, Call
  <2>2. QED
    BY <1>2, <1>3, <1>9, <2>1 DEF Rejected, Follows
<1>10. CASE Invalidate(c)
  <2>1. CASE ~call[c].retry /\ Set(c, [call[c] EXCEPT !.pc = "token", !.retry = TRUE])
    <3>1. At(c, "rejected") /\ Here(c, "token", TRUE)'
      BY <1>1, <1>10, <2>1 DEF Invalidate, Set, Here, At, Call
    <3>2. QED
      BY <1>2, <2>1, <3>1 DEF Here, After, At
  <2>2. QED
    BY <1>4, <1>10, <2>1 DEF Invalidate
<1>11. QED
  BY <1>4, <1>5, <1>6, <1>7, <1>8, <1>9, <1>10
  DEF Request, Locked, Exchange, Send, ExchangeFails, GiveUp, Answered

\* No step of anybody takes a completion back.
LEMMA NeverBack ==
  ASSUME IInv, [Next]_vars, NEW c \in Caller, NEW pc \in DOMAIN Follows,
         NEW retry \in BOOLEAN, Here(c, pc, retry)
  PROVE  Here(c, pc, retry)' \/ After(c, pc, retry)'
<1>1. CASE Request(c) \/ Locked(c)
  BY <1>1, StepGoesOn
<1>2. ASSUME call'[c] = call[c] PROVE Here(c, pc, retry)'
  BY <1>2 DEF Here, At
<1>3. ASSUME NEW d \in Caller, d # c, Complete(d) \/ Request(d) \/ Locked(d)
      PROVE  call'[c] = call[c]
  BY <1>3, StepGoesOn DEF Complete, Set, IInv, TypeOK
<1>4. ~Complete(c)
  BY DEF Complete, Here, At, Follows
<1>5. CASE Revoke \/ Tick \/ UNCHANGED vars
  BY <1>2, <1>5 DEF Revoke, Tick, vars
<1>6. QED
  BY <1>1, <1>2, <1>3, <1>4, <1>5 DEF Next, Request, Locked

\* The lock goes back with the end of the exchange it is held for.
LEMMA LockGoesBack ==
  ASSUME IInv, [Next]_vars, NEW c \in Caller, holder = c
  PROVE  holder' = c \/ IsFree'
BY WifAssumption
DEF Next, Complete, AccessToken, Exchange, Send, IdentityToken, Mint, Exchanged,
    ExchangeFails, GiveUp, Unlock, Answered, Rejected, Invalidate, Revoke, Tick, IsFree,
    IInv, TypeOK, At, InExchange, vars

\* A completion goes on by itself.
Proceeds(c) == Spec /\ GoesOn(c) /\ []CanGoOn

StepIsPassed(c, pc, retry) == Here(c, pc, retry) ~> After(c, pc, retry)

\* A request ends: it is answered, or fails.
LEMMA RequestEnds ==
  ASSUME NEW c \in Caller, NEW pc \in InExchange \cup {"send"}, NEW retry \in BOOLEAN
  PROVE  Proceeds(c) => StepIsPassed(c, pc, retry)
<1>1. pc \in DOMAIN Follows
  BY DEF Follows, InExchange
<1>2. /\ IInv /\ Here(c, pc, retry) /\ [Next]_vars
           => Here(c, pc, retry)' \/ After(c, pc, retry)'
      /\ IInv /\ Here(c, pc, retry) /\ <<Request(c)>>_vars => After(c, pc, retry)'
  BY <1>1, NeverBack, StepGoesOn
<1>3. CanGoOn /\ Here(c, pc, retry) => ENABLED <<Request(c)>>_vars
  BY DEF CanGoOn, Here, At
<1>4. QED
  BY <1>2, <1>3, WifInvariant, PTL DEF Spec, GoesOn, Proceeds, StepIsPassed

\* Nothing keeps a completion from its next step: it always can take it, and nobody
\* holds the lock for ever.
NothingBlocks == []CanGoOn /\ []<>IsFree

\* The scheduling of a completion.
Scheduled(c) == Spec /\ GoesOn(c) /\ NothingBlocks

\* A step of a completion ends: its request does, or it gets the lock.
LEMMA StepEnds ==
  ASSUME NEW c \in Caller, NEW pc \in DOMAIN Follows, NEW retry \in BOOLEAN
  PROVE  Scheduled(c) => StepIsPassed(c, pc, retry)
<1>1. CASE pc \in InExchange \cup {"send"}
  <2>1. Scheduled(c) => Proceeds(c)
    BY PTL DEF NothingBlocks, Scheduled, Proceeds
  <2>2. QED
    BY <1>1, <2>1, RequestEnds
<1>2. CASE pc \in {"token", "rejected"}
  <2>1. /\ IInv /\ Here(c, pc, retry) /\ [Next]_vars
             => Here(c, pc, retry)' \/ After(c, pc, retry)'
        /\ IInv /\ Here(c, pc, retry) /\ <<Locked(c)>>_vars => After(c, pc, retry)'
    BY NeverBack, StepGoesOn
  <2>2. CanGoOn /\ Here(c, pc, retry) /\ IsFree => ENABLED <<Locked(c)>>_vars
    BY <1>2 DEF CanGoOn, Here, At
  <2>3. QED
    BY <2>1, <2>2, WifInvariant, PTL DEF Spec, GoesOn, NothingBlocks, Scheduled, StepIsPassed
<1>3. QED
  BY <1>1, <1>2 DEF Follows, InExchange

\* An attempt ends, the first in the second at most.
AttemptEnds(c, retry) ==
  ~At(c, "idle") /\ call[c].retry = retry
    ~> At(c, "idle") \/ (retry = FALSE /\ call[c].retry = TRUE)

LEMMA EachAttemptEnds ==
  ASSUME NEW c \in Caller, NEW retry \in BOOLEAN
  PROVE  Scheduled(c) => AttemptEnds(c, retry)
<1>1. IInv /\ ~At(c, "idle") /\ call[c].retry = retry =>
        \/ Here(c, "token", retry) \/ Here(c, "identity", retry)
        \/ Here(c, "exchange", retry) \/ Here(c, "answer", retry)
        \/ Here(c, "send", retry) \/ Here(c, "rejected", retry)
  BY DEF IInv, TypeOK, Call, InExchange, Here, At
<1>2. /\ After(c, "token", retry) =>
           At(c, "idle") \/ Here(c, "send", retry) \/ Here(c, "identity", retry)
      /\ After(c, "identity", retry) => At(c, "idle") \/ Here(c, "exchange", retry)
      /\ After(c, "exchange", retry) => At(c, "idle") \/ Here(c, "answer", retry)
      /\ After(c, "answer", retry) => At(c, "idle") \/ Here(c, "send", retry)
      /\ After(c, "send", retry) => At(c, "idle") \/ Here(c, "rejected", retry)
      /\ After(c, "rejected", retry) =>
           At(c, "idle") \/ (retry = FALSE /\ call[c].retry = TRUE)
  BY DEF After, Follows, Here
<1>3. Scheduled(c) =>
        /\ StepIsPassed(c, "token", retry) /\ StepIsPassed(c, "identity", retry)
        /\ StepIsPassed(c, "exchange", retry) /\ StepIsPassed(c, "answer", retry)
        /\ StepIsPassed(c, "send", retry) /\ StepIsPassed(c, "rejected", retry)
  BY StepEnds DEF Follows
<1>4. QED
  BY <1>1, <1>2, <1>3, WifInvariant, PTL DEF Scheduled, StepIsPassed, AttemptEnds

Ends(c) == ~At(c, "idle") ~> At(c, "idle")

\* There is no third attempt.
LEMMA CompletionEnds ==
  ASSUME NEW c \in Caller
  PROVE  Scheduled(c) => Ends(c)
<1>1. IInv => call[c].retry = TRUE \/ call[c].retry = FALSE
  BY DEF IInv, TypeOK, Call
<1>2. Scheduled(c) => AttemptEnds(c, TRUE) /\ AttemptEnds(c, FALSE)
  BY EachAttemptEnds
<1>3. ~(TRUE = FALSE /\ call[c].retry = TRUE)
  OBVIOUS
<1>4. QED
  BY <1>1, <1>2, <1>3, WifInvariant, PTL DEF Scheduled, AttemptEnds, Ends

\* An exchange gives the lock back (accessToken): it caches a token, or fails.
LEMMA LockIsFreed ==
  ASSUME NEW c \in Caller
  PROVE  Proceeds(c) => (holder = c ~> IsFree)
<1>1. IInv /\ holder = c =>
        \/ Here(c, "identity", TRUE) \/ Here(c, "exchange", TRUE) \/ Here(c, "answer", TRUE)
        \/ Here(c, "identity", FALSE) \/ Here(c, "exchange", FALSE) \/ Here(c, "answer", FALSE)
  BY DEF IInv, TypeOK, Call, InExchange, Here, At
<1>2. IInv /\ holder = c /\ [Next]_vars => (holder = c)' \/ IsFree'
  BY LockGoesBack
<1>3. \A retry \in BOOLEAN :
        /\ After(c, "identity", retry) => At(c, "idle") \/ Here(c, "exchange", retry)
        /\ After(c, "exchange", retry) => At(c, "idle") \/ Here(c, "answer", retry)
        /\ After(c, "answer", retry) => At(c, "idle") \/ At(c, "send")
  BY DEF After, Follows, Here
<1>4. IInv /\ (At(c, "idle") \/ At(c, "send")) => ~(holder = c)
  BY DEF IInv, TypeOK, At, InExchange
<1>5. Proceeds(c) =>
        /\ StepIsPassed(c, "identity", TRUE) /\ StepIsPassed(c, "identity", FALSE)
        /\ StepIsPassed(c, "exchange", TRUE) /\ StepIsPassed(c, "exchange", FALSE)
        /\ StepIsPassed(c, "answer", TRUE) /\ StepIsPassed(c, "answer", FALSE)
  BY RequestEnds DEF InExchange
<1>6. /\ After(c, "identity", TRUE) => At(c, "idle") \/ Here(c, "exchange", TRUE)
      /\ After(c, "exchange", TRUE) => At(c, "idle") \/ Here(c, "answer", TRUE)
      /\ After(c, "answer", TRUE) => At(c, "idle") \/ At(c, "send")
      /\ After(c, "identity", FALSE) => At(c, "idle") \/ Here(c, "exchange", FALSE)
      /\ After(c, "exchange", FALSE) => At(c, "idle") \/ Here(c, "answer", FALSE)
      /\ After(c, "answer", FALSE) => At(c, "idle") \/ At(c, "send")
  BY <1>3
<1>7. QED
  BY <1>1, <1>2, <1>4, <1>5, <1>6, WifInvariant, PTL DEF Spec, Proceeds, StepIsPassed

\* Every completion ends, in a title or an error (Complete), whatever the token server
\* and the Messages API answer and however callers share the cached token, if its
\* steps stay possible and nobody holds the lock for ever.
THEOREM EveryCompletionEnds ==
  FairSpec /\ NothingBlocks => CompletionsEnd
<1>1. FairSpec => Spec /\ \A c \in Caller : GoesOn(c)
  BY PTL DEF FairSpec
<1>2. ASSUME NEW c \in Caller
      PROVE  Spec /\ GoesOn(c) /\ NothingBlocks => Ends(c)
  <2>1. Spec /\ GoesOn(c) /\ NothingBlocks => Scheduled(c)
    BY PTL DEF Scheduled
  <2>2. QED
    BY <2>1, CompletionEnds
<1>3. (\A c \in Caller : Ends(c)) => CompletionsEnd
  BY DEF Ends, CompletionsEnd
<1>4. QED
  BY <1>1, <1>2, <1>3
=============================================================================
