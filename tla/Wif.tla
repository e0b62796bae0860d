-------------------------------- MODULE Wif --------------------------------
(***************************************************************************)
(* The keyless provider: internal/naming/anthropic_wif.go, and the         *)
(* metadata server's identity tokens, internal/app/identity.go.  Several   *)
(* completions share one cached access token.  Access tokens are numbered  *)
(* as the server mints them; the server may stop accepting one early, or   *)
(* never accept it.                                                        *)
(***************************************************************************)
EXTENDS Integers, Sequences, FiniteSets

CONSTANTS
  Caller,     \* the completions that may run at once
  Lifetime,   \* the values of expires_in
  Margin,     \* tokenRefreshMargin
  MaxTokens,  \* bound: tokens minted
  MaxTime     \* bound: the clock

NoToken == 0
Nobody == 0

ASSUME WifAssumption ==
  /\ Lifetime \subseteq Nat \ {0} /\ Margin \in Nat
  /\ MaxTokens \in Nat /\ MaxTime \in Nat
  /\ Nobody \notin Caller

VARIABLES
  clock,
  minted,    \* server: until when each token lasts, in the order it minted them
  accepted,  \* server: the tokens it accepts
  token, expiry,  \* the cached access token
  holder,    \* mu: the caller that holds it across an exchange, or Nobody
  call,      \* per caller: where Complete is
  rejected,  \* history: the tokens a call saw rejected
  dropped    \* history: the tokens a call has dropped since

vars == <<clock, minted, accepted, token, expiry, holder, call, rejected, dropped>>
server == <<minted, accepted>>
cache == <<token, expiry>>

Idle == [pc |-> "idle", retry |-> FALSE, token |-> NoToken, cached |-> FALSE,
         issued |-> 0, expires |-> 0]

Init ==
  /\ clock = 0
  /\ minted = <<>> /\ accepted = {}
  /\ token = NoToken /\ expiry = 0
  /\ holder = Nobody
  /\ call = [c \in Caller |-> Idle]
  /\ rejected = {} /\ dropped = {}

At(c, pc) == call[c].pc = pc
Set(c, next) == call' = [call EXCEPT ![c] = next]

\* A completion ends: with a title, or an error that leaves the ride queued.
End(c) == Set(c, Idle)

Complete(c) ==
  /\ At(c, "idle")
  /\ Set(c, [Idle EXCEPT !.pc = "token"])
  /\ UNCHANGED <<clock, server, cache, holder, rejected, dropped>>

Cached == token # NoToken /\ expiry - clock >= Margin

IsFree == holder = Nobody

\* accessToken: the cached token, or an exchange under the lock.
AccessToken(c) ==
  /\ At(c, "token") /\ IsFree
  /\ \/ /\ Cached
        /\ Set(c, [call[c] EXCEPT !.pc = "send", !.token = token, !.cached = TRUE])
        /\ UNCHANGED holder
     \/ /\ ~Cached
        /\ Set(c, [call[c] EXCEPT !.pc = "identity"])
        /\ holder' = c
  /\ UNCHANGED <<clock, server, cache, rejected, dropped>>

\* Mutant: an error leaves without the lock being released.
KeepLock == UNCHANGED holder

\* A failed exchange caches nothing.
Unlock == holder' = Nobody

GiveUp(c) == End(c) /\ Unlock

\* The metadata server: a fresh identity token, or none.  Issued is taken
\* before the request leaves.
IdentityToken(c) ==
  /\ At(c, "identity")
  /\ \/ GiveUp(c)
     \/ /\ Set(c, [call[c] EXCEPT !.pc = "exchange", !.issued = clock])
        /\ UNCHANGED holder
  /\ UNCHANGED <<clock, server, cache, rejected, dropped>>

\* The server mints a token, which it may not accept when it is used.
Mint(c) ==
  /\ At(c, "exchange") /\ Len(minted) < MaxTokens
  /\ \E life \in Lifetime :
       /\ minted' = Append(minted, clock + life)
       /\ Set(c, [call[c] EXCEPT !.pc = "answer", !.token = Len(minted'), !.expires = life])
  /\ \E good \in BOOLEAN :
       accepted' = IF good THEN accepted \cup {Len(minted')} ELSE accepted
  /\ UNCHANGED <<clock, cache, holder, rejected, dropped>>

\* Mutant: the lifetime counts from the answer.
FromTheAnswer(c) == clock + call[c].expires

\* From when the request left.
Expiry(c) == call[c].issued + call[c].expires

Exchanged(c) ==
  /\ At(c, "answer")
  /\ token' = call[c].token /\ expiry' = Expiry(c)
  /\ Set(c, [call[c] EXCEPT !.pc = "send", !.cached = FALSE,
                            !.issued = 0, !.expires = 0])
  /\ Unlock
  /\ UNCHANGED <<clock, server, rejected, dropped>>

\* Denied, timed out, not understood, or minted and the answer lost.
ExchangeFails(c) ==
  /\ At(c, "exchange") \/ At(c, "answer")
  /\ GiveUp(c)
  /\ UNCHANGED <<clock, server, cache, rejected, dropped>>

\* The Messages API's verdict: it accepts a token until it expires.
Accepts(t) == t \in accepted /\ clock < minted[t]

\* Any answer but a 401, and any error of the call.
Answered(c) ==
  /\ At(c, "send")
  /\ End(c)
  /\ UNCHANGED <<clock, server, cache, holder, rejected, dropped>>

Rejected(c) ==
  /\ At(c, "send") /\ ~Accepts(call[c].token)
  /\ Set(c, [call[c] EXCEPT !.pc = "rejected"])
  /\ rejected' = rejected \cup {call[c].token}
  /\ UNCHANGED <<clock, server, cache, holder, dropped>>

\* Mutant: whatever is cached goes.
DropWhatIsCached(t) == token' = NoToken /\ expiry' = 0

\* Mutant: the cached token is left alone.
DropNothing(t) == UNCHANGED cache

\* invalidate: only if it is still the one that was rejected.
DropIfCached(t) ==
  IF token = t THEN token' = NoToken /\ expiry' = 0 ELSE UNCHANGED cache

\* A token from the cache earns one more attempt; the second 401, and a fresh
\* token's first, are errors.
Invalidate(c) ==
  /\ At(c, "rejected") /\ IsFree
  /\ DropIfCached(call[c].token)
  /\ dropped' = dropped \cup {call[c].token}
  /\ \/ /\ call[c].cached /\ ~call[c].retry
        /\ Set(c, [call[c] EXCEPT !.pc = "token", !.retry = TRUE])
     \/ /\ ~call[c].cached \/ call[c].retry
        /\ End(c)
  /\ UNCHANGED <<clock, server, holder, rejected>>

\* The server stops accepting a token before its time.
Revoke ==
  /\ \E t \in accepted : accepted' = accepted \ {t}
  /\ UNCHANGED <<clock, minted, cache, holder, call, rejected, dropped>>

Tick ==
  /\ clock < MaxTime /\ clock' = clock + 1
  /\ UNCHANGED <<server, cache, holder, call, rejected, dropped>>

Exchange(c) == IdentityToken(c) \/ Mint(c) \/ Exchanged(c) \/ ExchangeFails(c)
Send(c) == Answered(c) \/ Rejected(c)

Next ==
  \/ \E c \in Caller :
       Complete(c) \/ AccessToken(c) \/ Exchange(c) \/ Send(c) \/ Invalidate(c)
  \/ Revoke \/ Tick

Spec == Init /\ [][Next]_vars

\* What a caller does by itself, and what it needs the lock for.
Request(c) == Exchange(c) \/ Send(c)
Locked(c) == AccessToken(c) \/ Invalidate(c)

\* Requests end, for they time out, and a mutex is not denied to a waiter
\* forever.
GoesOn(c) == WF_vars(Request(c)) /\ SF_vars(Locked(c))
FairSpec == Spec /\ \A c \in Caller : GoesOn(c)
-----------------------------------------------------------------------------
(* Properties.                                                             *)

Tokens == 1..Len(minted)
InExchange == {"identity", "exchange", "answer"}

Call ==
  [pc : InExchange \cup {"idle", "token", "send", "rejected"}, retry : BOOLEAN,
   token : Tokens \cup {NoToken}, cached : BOOLEAN, issued : Nat, expires : Nat]

\* Every variable has its type; the lock is held across an exchange
\* (accessToken) and by one caller only.
TypeOK ==
  /\ clock \in Nat /\ minted \in Seq(Nat) /\ accepted \subseteq Tokens
  /\ token \in Tokens \cup {NoToken} /\ expiry \in Nat
  /\ token = NoToken => expiry = 0
  /\ holder \in Caller \cup {Nobody}
  /\ call \in [Caller -> Call]
  /\ \A c \in Caller : call[c].pc \in InExchange <=> holder = c
  /\ dropped \subseteq rejected /\ rejected \subseteq Tokens

\* The cache never outlives the token (exchange): what is computed from
\* expires_in is no later than the time the server means.
ExpiryIsNotLate == token # NoToken => expiry <= minted[token]

\* What is about to be cached: minted since the request left, and shown to
\* nobody yet.
AnswerIsFresh ==
  \A c \in Caller :
    /\ At(c, "exchange") => call[c].issued <= clock
    /\ At(c, "answer") =>
         /\ call[c].token \in Tokens \ (rejected \cup {token})
         /\ call[c].issued + call[c].expires <= minted[call[c].token]
         /\ \A d \in Caller \ {c} : call[d].token # call[c].token

\* Only a minted token is presented, and only one seen rejected is dropped.
PresentedIsMinted ==
  \A c \in Caller :
    /\ At(c, "send") => call[c].token \in Tokens
    /\ At(c, "rejected") => call[c].token \in rejected

DroppedIsNotCached == token \notin dropped

ExchangeIsNeeded == holder # Nobody => ~Cached

\* The inductive invariant (accessToken, exchange, invalidate): types, the
\* expiry, and why an exchange under the lock brings a token that is new to all.
IInv ==
  /\ TypeOK
  /\ ExpiryIsNotLate
  /\ AnswerIsFresh
  /\ PresentedIsMinted
  /\ DroppedIsNotCached
  /\ ExchangeIsNeeded

\* Every 401 drops the token it rejected, and no later call presents it again
\* (Complete), although other calls may hold it, or have replaced it, by then.
RejectedIsForgotten ==
  [][/\ token' \notin dropped'
     /\ \A c \in Caller :
          ~At(c, "send") /\ At(c, "send")' => call'[c].token \notin dropped]_vars

\* A token nobody has seen fail is not given up for another (invalidate,
\* accessToken), so callers that find the cache empty share one exchange.
TokenIsKept ==
  [][token' # token /\ token # NoToken => token \in rejected \/ ~Cached]_vars

\* Every completion ends, in a title or an error (Complete).
CompletionsEnd == \A c \in Caller : ~At(c, "idle") ~> At(c, "idle")

\* A call can always take its next step: an error, if nothing else, or, if it needs
\* the lock, what it needs it for once nobody holds it.
CanGoOn ==
  \A c \in Caller :
    /\ call[c].pc \in InExchange \cup {"send"} => ENABLED <<Request(c)>>_vars
    /\ call[c].pc \in {"token", "rejected"} /\ IsFree => ENABLED <<Locked(c)>>_vars
=============================================================================
