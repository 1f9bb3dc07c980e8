----------------------------- MODULE TokenStore -----------------------------
(***************************************************************************)
(* The OAuth token store (internal/oauth/token_store.go): a row for each    *)
(* token in PostgreSQL, and copies of it in Valkey under up to three keys,  *)
(* each with a time to live.  This module has the data, the two readings    *)
(* of a token's expiry (what the cache is told when a copy is set, what is  *)
(* asked when a row is found) and the single commands; Accounts has the     *)
(* calls made of them.                                                      *)
(*                                                                         *)
(* The OAuth library makes two sorts of tokens: one that has only a code,   *)
(* and one that has an access and a refresh value.  Values are random, so   *)
(* each belongs to one token, and a token to the first pair of its grant:   *)
(* refreshing keeps the refresh value's time of creation, so all pairs of   *)
(* a grant expire together.                                                 *)
(***************************************************************************)
EXTENDS UserTable

CONSTANTS
    Codes,      \* tokens that are an authorization code
    Pairs,      \* tokens that are an access and a refresh value
    NoToken

Tokens == Codes \cup Pairs

\* oauth:code:, oauth:access: and oauth:refresh: with a token's value.
Keys == ({"code"} \X Codes) \cup ({"access", "refresh"} \X Pairs)

ASSUME TokenAssumption ==
    /\ NoToken \notin Tokens
    /\ Codes \cap Pairs = {}

VARIABLES
    token,      \* whose a token is and of which grant; NoUser until it is made
    rows,       \* oauth_tokens: the tokens that have a row
    copies,     \* Valkey: the keys that are set
    expired     \* the times that have come, a refresh value's under its grant

tokenVars == <<token, rows, copies, expired>>

Unmade == [user |-> NoUser, grant |-> NoToken]

TokenTypeOK ==
    /\ token \in [Tokens -> [user: Users, grant: Tokens] \cup {Unmade}]
    /\ rows \subseteq Tokens
    /\ copies \subseteq Keys
    /\ expired \subseteq Keys

TokenInit ==
    /\ token = [t \in Tokens |-> Unmade]
    /\ rows = {}
    /\ copies = {}
    /\ expired = {}

Made(t) == token[t].user # NoUser
TokensOf(u) == {t \in Tokens : token[t].user = u}

-----------------------------------------------------------------------------
(* Expiry *)

\* expiryReached of a value, at the times e.
ExpiryReached(k, e) ==
    IF k[1] = "refresh" THEN <<"refresh", token[k[2]].grant>> \in e ELSE k \in e

ExpiredByAccess(k) ==
    \/ ExpiryReached(k, expired)
    \/ k[1] # "code" /\ ExpiryReached(<<"access", k[2]>>, expired)

\* tokenExpiredForLookup: an access value also ends with its refresh value.
ExpiredForLookup(k) ==
    \/ ExpiryReached(k, expired)
    \/ k[1] = "access" /\ ExpiryReached(<<"refresh", k[2]>>, expired)

TTLOfValueOnly(k, e) == ~ExpiryReached(k, e)

\* tokenCodeTTL, tokenAccessTTL and tokenRefreshTTL leave something at the times e.
HasTTL(k, e) ==
    /\ ~ExpiryReached(k, e)
    /\ k[1] = "access" => ~ExpiryReached(<<"refresh", k[2]>>, e)

-----------------------------------------------------------------------------
(* Commands *)

\* The transaction of Create: no row shares a value with a new token.
InsertRow(t, u, g) ==
    /\ token' = [token EXCEPT ![t] = [user |-> u, grant |-> g]]
    /\ rows' = rows \cup {t}
    /\ UNCHANGED <<copies, expired>>

DeleteRows(T) ==
    /\ rows' = rows \ T
    /\ UNCHANGED <<token, copies, expired>>

\* cacheLookup: a value without time left is not copied.
SetCopy(k) ==
    /\ copies' = IF HasTTL(k, expired) THEN copies \cup {k} ELSE copies
    /\ UNCHANGED <<token, rows, expired>>

DeleteCopies(K) ==
    /\ copies' = copies \ K
    /\ UNCHANGED <<token, rows, expired>>

\* A time comes, and Valkey drops the copies that were to live until then.
TimeComes(k) ==
    /\ Made(k[2]) /\ k \notin expired
    /\ k[1] = "refresh" => token[k[2]].grant = k[2]
    /\ expired' = expired \cup {k}
    /\ copies' = {c \in copies : HasTTL(c, expired')}
    /\ UNCHANGED <<token, rows>>

=============================================================================
