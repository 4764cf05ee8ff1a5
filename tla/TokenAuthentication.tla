------------------------- MODULE TokenAuthentication -------------------------
(***************************************************************************)
(* Token authentication of API requests (core/authentication.py): the     *)
(* token is taken from the Authorization header or, when the header is     *)
(* empty, from the x-auth-token query parameter; the value is split on     *)
(* whitespace and must read "Token <key>".  The class is wrapped by        *)
(* user_capturing_auth, which stores the authenticated user in the         *)
(* thread-local current user of the logging middleware.                    *)
(*                                                                         *)
(* Strings are sequences over a four-letter alphabet: " " is whitespace,   *)
(* "t" and "T" are the keyword b'token' in lower and upper case (the only  *)
(* distinction lower() makes on it), and "k" is a key character.  One     *)
(* worker thread serves requests one after another.                        *)
(***************************************************************************)
EXTENDS Naturals, Sequences, SequencesExt

CONSTANTS
    User,        \* the users
    ActiveUser,  \* the users with is_active
    TokenOwner,  \* TokenOwner[key]: the user of the Token row with that key
    NoUser,      \* the thread-local current user before any is set
    MaxLen       \* the longest header or query value enumerated

Char == {" ", "t", "T", "k"}

Keyword == <<"t">>

String == BoundedSeq(Char, MaxLen)

\* str.lower()
Lower(s) == [i \in DOMAIN s |-> IF s[i] = "T" THEN "t" ELSE s[i]]

\* str.split(): the maximal runs of non-whitespace characters, in order.
WordStarts(s) == {i \in DOMAIN s : s[i] # " " /\ (i = 1 \/ s[i - 1] = " ")}

WordAt(s, i) ==
    SubSeq(s, i, CHOOSE j \in i..Len(s) :
                    /\ \A m \in i..j : s[m] # " "
                    /\ j = Len(s) \/ s[j + 1] = " ")

Split(s) ==
    LET starts == SetToSortSeq(WordStarts(s), <)
    IN  [n \in DOMAIN starts |-> WordAt(s, starts[n])]

\* What authenticate returns or raises: None ("anonymous"), one of the
\* AuthenticationFailed cases, or the user.
Failure == {"no_credentials", "has_spaces", "invalid_token", "inactive"}

Outcome == {"anonymous"} \cup Failure \cup User

\* rest_framework's authenticate_credentials: the Token row with that key,
\* and its user must be active.
AuthenticateCredentials(key) ==
    CASE key \notin DOMAIN TokenOwner          -> "invalid_token"
      [] TokenOwner[key] \notin ActiveUser     -> "inactive"
      [] OTHER                                 -> TokenOwner[key]

\* get_authorization_value: the header (b'' when absent), or else the query
\* parameter (with '' as its default).
GetAuthorizationValue(header, query) == IF header # <<>> THEN header ELSE query

\* authenticate, from the split of the value on.
AuthenticateValue(v) ==
    LET auth == Split(v)
    IN  CASE auth = <<>> \/ Lower(auth[1]) # Keyword -> "anonymous"
          [] Len(auth) = 1                          -> "no_credentials"
          [] Len(auth) > 2                          -> "has_spaces"
          [] OTHER                                  -> AuthenticateCredentials(auth[2])

Authenticate(header, query) == AuthenticateValue(GetAuthorizationValue(header, query))

VARIABLES
    header,       \* the Authorization header of the last request (<<>>: absent)
    query,        \* its x-auth-token query parameter (<<>>: absent)
    result,       \* what authenticate returned or raised for it
    currentUser   \* the logging middleware's thread-local current user

vars == <<header, query, result, currentUser>>

TypeOK ==
    /\ header \in String
    /\ query \in String
    /\ result \in Outcome
    /\ currentUser \in User \cup {NoUser}

Init ==
    /\ header = <<>>
    /\ query = <<>>
    /\ result = "anonymous"
    /\ currentUser = NoUser

\* CapturingAuthentication.authenticate: the wrapped authenticate, then
\* set_current_user when it returned a user; None and a raise leave the
\* thread-local as the previous request left it.
HandleRequest(h, q) ==
    /\ header' = h
    /\ query' = q
    /\ result' = Authenticate(h, q)
    /\ currentUser' = IF result' \in User THEN result' ELSE currentUser

Next == \E h, q \in String : HandleRequest(h, q)

Spec == Init /\ [][Next]_vars

-----------------------------------------------------------------------------
\* The value holds the keyword as its first word.
HasToken(v) == LET w == Split(v) IN w # <<>> /\ Lower(w[1]) = Keyword

(***************************************************************************)
(* QueryTokenUsedWhenHeaderHasNone: the class docstring says "Use          *)
(* TOKEN_KEY from request query parameters if authentication token was not *)
(* found in header": a request whose header carries no token is            *)
(* authenticated by the token of its x-auth-token parameter.               *)
(***************************************************************************)
QueryTokenUsedWhenHeaderHasNone ==
    result = IF HasToken(header) THEN AuthenticateValue(header)
                                 ELSE AuthenticateValue(query)

=============================================================================
