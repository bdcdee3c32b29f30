---------------------------- MODULE MailedTokens ----------------------------
(***************************************************************************)
(* The tables of tokens that are sent by mail.  Whoever knows a token may  *)
(* use it as long as its row is there: the expiry is looked at only where  *)
(* the rows of a user are counted.                                         *)
(***************************************************************************)
EXTENDS Naturals, FiniteSets

CONSTANTS
    Tokens,     \* hashes; one is never drawn twice
    Holders,    \* the users they are sent to
    TokenLimit  \* a user with more live tokens than that gets no other

Kinds == {"activation", "deletion", "reset", "dump"}

VARIABLE mail  \* each token's row, or why there is none

AnyHolder == CHOOSE u \in Holders : TRUE
NoRow(why) == [row |-> why, who |-> AnyHolder, kind |-> "reset"]
Row(u, k) == [row |-> "live", who |-> u, kind |-> k]

MailTypeOK ==
    mail \in [Tokens -> [row : {"unused", "live", "expired", "gone"},
                         who : Holders, kind : Kinds]]

MailInit == mail = [t \in Tokens |-> NoRow("unused")]

InTable(t) == mail[t].row \in {"live", "expired"}
LiveTokens(u, k) == {t \in Tokens : mail[t] = Row(u, k)}

\* Mutant: the limit of one kind of token is not looked at.
TooManyOfOneKind(u, k) == k # "reset" /\ Cardinality(LiveTokens(u, k)) > TokenLimit

\* make_email_token's count of what has not expired
TooMany(u, k) == Cardinality(LiveTokens(u, k)) > TokenLimit

Unused == {t \in Tokens : mail[t].row = "unused"}

\* A hash that nobody has; after eleven tries that found none it gives up.
InsertToken(u, k) ==
    mail' = IF Unused = {} THEN mail
            ELSE [mail EXCEPT ![CHOOSE t \in Unused : TRUE] = Row(u, k)]

Expire(t) ==
    /\ mail[t].row = "live"
    /\ mail' = [mail EXCEPT ![t] = [row |-> "expired", who |-> mail[t].who,
                                    kind |-> mail[t].kind]]

\* Mutant: only what has not expired is cleaned.
CleanLive(t) ==
    mail' = IF mail[t].row # "live" THEN mail ELSE [mail EXCEPT ![t] = NoRow("gone")]

\* clean_etoken
Clean(t) ==
    mail' = IF InTable(t) THEN [mail EXCEPT ![t] = NoRow("gone")] ELSE mail

\* ON DELETE CASCADE
DropTokensOf(u) ==
    mail' = [t \in Tokens |-> IF InTable(t) /\ mail[t].who = u THEN NoRow("gone")
                              ELSE mail[t]]
=============================================================================
