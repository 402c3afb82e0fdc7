----------------------------- MODULE Connecting -----------------------------
(***************************************************************************)
(* Opening a session to a saved host, possibly through jump hosts: the     *)
(* loop of session/connect.rs, the pin policy and the passwords of         *)
(* session/auth.rs, the pins of session/pins.rs and session/directory.rs   *)
(* and the host key window of session/hostkey_window.rs.  ssh/russh_engine *)
(* connects hop by hop; a server presents any key at any time, and accepts *)
(* or refuses a login as it likes.  Connections run at the same time and   *)
(* share the pins; the window is the person's.                             *)
(***************************************************************************)
EXTENDS Naturals, Sequences, FiniteSets

CONSTANTS
    Conn, Host, Key,
    Chain,          \* Seq(Host): the jump hosts and the destination
    KindOf,         \* Key -> key types
    Auth,           \* Host -> {"key", "password", "interactive"}
    Saved,          \* the hosts with a password in the keychain
    Prompts,        \* PASSWORD_PROMPTS
    MaxForgets      \* bound: pins the person forgets elsewhere

None == "none"

ASSUME ConnectAssumption ==
    /\ None \notin Key
    /\ Chain \in Seq(Host) /\ Chain # << >> /\ Prompts \in Nat \ {0} /\ MaxForgets \in Nat
    /\ Auth \in [Host -> {"key", "password", "interactive"}] /\ Saved \subseteq Host

(* No entry of passwords_typed yet. *)
NoEntry == Prompts + 1

(* round_limit(): what every host can ask for, and the connect that works. *)
Rounds == Len(Chain) * (1 + 1 + 1 + Prompts) + 1

VARIABLES
    pins, forgets,      \* the directory's pin of each host
    cancel, pc, at,     \* of each connection: cancelled, where it is, the hop
    rounds,
    policy,             \* PinPolicy
    restricted,         \* target.hops[..].pinned: the handshake offers its type only
    asked, freed,       \* Done.asked_host_key, Done.unrestricted
    count,              \* Done.passwords_typed, or "no entry"
    first,              \* target.hops[..].auth
    typed, gave,        \* BrokerAuth.typed, BrokerAuth.gave
    gaveUp,             \* BrokerAuth.cancelled
    shown,              \* the key of the server and the pin it was compared with
    listed, reply,      \* HostKeyHub: the questions in the window, the answers
    trusts,             \* history: what the person trusted
    logins, ever,       \*   the keys that logins were sent to, the keys that were pinned
    windows, questions  \*   how often the person was asked, per connection and host

directory == <<pins, forgets, ever>>
done == <<asked, freed, count>>
auth == <<first, typed, gave, gaveUp>>
hub == <<listed, reply, trusts>>
hist == <<logins, windows, questions>>
vars == <<directory, cancel, pc, at, rounds, policy, restricted, done, auth, shown, hub, hist>>

PinOrNone == Key \cup {None}
Nothing == [key |-> None, was |-> None]
H(c) == Chain[at[c]]

Init ==
    /\ pins \in [Host -> PinOrNone] /\ forgets = 0
    /\ ever = [h \in Host |-> {pins[h]} \ {None}]
    /\ cancel = [c \in Conn |-> FALSE] /\ pc = [c \in Conn |-> "new"] /\ at = [c \in Conn |-> 1]
    /\ rounds = [c \in Conn |-> 0]
    /\ policy = [c \in Conn |-> [h \in Host |-> None]] /\ restricted = policy
    /\ asked = [c \in Conn |-> {}] /\ freed = asked
    /\ count = [c \in Conn |-> [h \in Host |-> NoEntry]]
    /\ first = [c \in Conn |-> Auth]
    /\ typed = asked /\ gave = policy /\ gaveUp = asked
    /\ shown = [c \in Conn |-> Nothing]
    /\ listed = {} /\ reply = [c \in Conn |-> None] /\ trusts = {}
    /\ logins = {} /\ windows = [c \in Conn |-> [h \in Host |-> 0]] /\ questions = windows

Goes(c, to) == pc' = [pc EXCEPT ![c] = to]
Set(f, c, x) == [f EXCEPT ![c][H(c)] = x]
Add(f, c) == [f EXCEPT ![c] = @ \cup {H(c)}]

Ended == {"connected", "failed", "tooMany"}

-----------------------------------------------------------------------------
(* One connection. *)

(* resolve(), and PinPolicy::from_target(); either the keys of the vault   *)
(* or the directory may fail.                                              *)
Resolve(c) ==
    /\ pc[c] = "new"
    /\ policy' = [policy EXCEPT ![c] = pins]
    /\ restricted' = [restricted EXCEPT ![c] = pins]
    /\ Goes(c, "round") \/ Goes(c, "failed")
    /\ UNCHANGED <<directory, cancel, at, rounds, done, auth, shown, hub, hist>>

(* A pass of the loop of connect_within(). *)
Round(c) ==
    /\ pc[c] = "round"
    /\ IF rounds[c] = Rounds THEN Goes(c, "tooMany") /\ UNCHANGED <<rounds, at>>
       ELSE IF cancel[c] THEN Goes(c, "failed") /\ UNCHANGED <<rounds, at>>
       ELSE /\ rounds' = [rounds EXCEPT ![c] = @ + 1] /\ at' = [at EXCEPT ![c] = 1]
            /\ Goes(c, "hop")
    /\ UNCHANGED <<directory, cancel, policy, restricted, done, auth, shown, hub, hist>>

(* connect_one(): a hop that starts with the password method asks for it   *)
(* before anything is connected; the person answers or gives up.           *)
Asks(c) ==
    /\ first[c][H(c)] = "password" /\ H(c) \notin typed[c] \cup Saved \cup gaveUp[c]

Prefetch(c) ==
    /\ pc[c] = "hop"
    /\ IF ~Asks(c) THEN UNCHANGED <<typed, gaveUp, questions>>
       ELSE /\ questions' = [questions EXCEPT ![c][H(c)] = @ + 1]
            /\ \/ typed' = Add(typed, c) /\ UNCHANGED gaveUp
               \/ gaveUp' = Add(gaveUp, c) /\ UNCHANGED typed
    /\ Goes(c, "handshake")
    /\ UNCHANGED <<directory, cancel, at, rounds, policy, restricted, done, first, gave, shown, hub,
                   logins, windows>>

(* Mutant of Handshake: a password that was given up is not the end. *)
HandshakeGoesOn(c, k) ==
    LET h == H(c) IN
    /\ pc[c] = "handshake"
    /\ restricted[c][h] # None => KindOf[restricted[c][h]] = KindOf[k]
    /\ Goes(c, IF policy[c][h] = k THEN "login" ELSE "confirm")
    /\ shown' = [shown EXCEPT ![c] = [key |-> k, was |-> policy[c][h]]]
    /\ UNCHANGED <<directory, cancel, at, rounds, policy, restricted, done, auth, hub, hist>>

(* The server presents a key of a type it was offered: PinPolicy::check(). *)
Handshake(c, k) ==
    LET h == H(c) IN
    /\ pc[c] = "handshake"
    /\ restricted[c][h] # None => KindOf[restricted[c][h]] = KindOf[k]
    /\ Goes(c, IF policy[c][h] = k THEN "login" ELSE IF h \in gaveUp[c] THEN "failed" ELSE "confirm")
    /\ shown' = [shown EXCEPT ![c] = [key |-> k, was |-> policy[c][h]]]
    /\ UNCHANGED <<directory, cancel, at, rounds, policy, restricted, done, auth, hub, hist>>

(* Mutant of NoCommonType: the restriction stays, and nothing is counted. *)
NoCommonTypeAgain(c) ==
    LET h == H(c) IN
    /\ pc[c] = "handshake" /\ restricted[c][h] # None
    /\ Goes(c, IF h \notin gaveUp[c] /\ policy[c][h] # None THEN "round" ELSE "failed")
    /\ UNCHANGED <<directory, cancel, at, rounds, policy, restricted, done, auth, shown, hub, hist>>

(* The server has no key of the pinned type: once more without the         *)
(* restriction, the policy still knowing the pin.                          *)
NoCommonType(c) ==
    LET h == H(c) IN
    /\ pc[c] = "handshake" /\ restricted[c][h] # None
    /\ IF h \notin gaveUp[c] /\ policy[c][h] # None /\ h \notin freed[c]
       THEN freed' = Add(freed, c) /\ restricted' = Set(restricted, c, None) /\ Goes(c, "round")
       ELSE Goes(c, "failed") /\ UNCHANGED <<freed, restricted>>
    /\ UNCHANGED <<directory, cancel, at, rounds, policy, asked, count, auth, shown, hub, hist>>

(* The hop does not answer, or breaks the protocol. *)
Unreachable(c) ==
    /\ pc[c] \in {"handshake", "login"} /\ Goes(c, "failed")
    /\ UNCHANGED <<directory, cancel, at, rounds, policy, restricted, done, auth, shown, hub, hist>>

(* authenticate(): what the person typed, else the keychain's password, is *)
(* given when the hop's methods hold the password one.                     *)
Password(c) ==
    IF first[c][H(c)] = "interactive" THEN None
    ELSE IF H(c) \in typed[c] THEN "typed" ELSE IF H(c) \in Saved THEN "keychain" ELSE None

Given(c) == IF Password(c) = None THEN gave[c][H(c)] ELSE Password(c)

LoginOK(c) ==
    /\ pc[c] = "login"
    /\ logins' = logins \cup {[conn |-> c, host |-> H(c), key |-> shown[c].key]}
    /\ gave' = Set(gave, c, Given(c))
    /\ IF at[c] < Len(Chain) THEN at' = [at EXCEPT ![c] = @ + 1] /\ Goes(c, "hop")
       ELSE UNCHANGED at /\ Goes(c, IF cancel[c] THEN "failed" ELSE "connected")
    /\ UNCHANGED <<directory, cancel, rounds, policy, restricted, done, first, typed, gaveUp, shown,
                   hub, windows, questions>>

(* Mutant of LoginRefused: the password asked before the connect does not  *)
(* count.                                                                  *)
LoginRefusedUncounted(c) ==
    LET h == H(c)
        sofar == IF count[c][h] # NoEntry THEN count[c][h] ELSE 0
    IN
    /\ pc[c] = "login"
    /\ logins' = logins \cup {[conn |-> c, host |-> h, key |-> shown[c].key]}
    /\ gave' = Set(gave, c, Given(c))
    /\ IF h \in gaveUp[c] \/ sofar >= Prompts
       THEN Goes(c, "failed") /\ UNCHANGED <<count, typed>>
       ELSE /\ count' = Set(count, c, sofar + 1)
            /\ typed' = [typed EXCEPT ![c] = @ \ {h}]
            /\ Goes(c, "askPassword")
    /\ UNCHANGED <<directory, cancel, at, rounds, policy, restricted, asked, freed, first, gaveUp,
                   shown, hub, windows, questions>>

(* AuthFailed, with a password that is wanted or that was refused: the     *)
(* person is asked, Prompts times in all.                                  *)
LoginRefused(c) ==
    LET h == H(c)
        sofar == IF count[c][h] # NoEntry THEN count[c][h] ELSE IF Given(c) = "typed" THEN 1 ELSE 0
    IN
    /\ pc[c] = "login"
    /\ logins' = logins \cup {[conn |-> c, host |-> h, key |-> shown[c].key]}
    /\ gave' = Set(gave, c, Given(c))
    /\ IF h \in gaveUp[c] \/ sofar >= Prompts
       THEN Goes(c, "failed") /\ UNCHANGED <<count, typed>>
       ELSE /\ count' = Set(count, c, sofar + 1)
            /\ typed' = [typed EXCEPT ![c] = @ \ {h}]
            /\ Goes(c, "askPassword")
    /\ UNCHANGED <<directory, cancel, at, rounds, policy, restricted, asked, freed, first, gaveUp,
                   shown, hub, windows, questions>>

(* The question between two connects. *)
AskPassword(c) ==
    /\ pc[c] = "askPassword"
    /\ questions' = [questions EXCEPT ![c][H(c)] = @ + 1]
    /\ \/ Goes(c, "failed") /\ UNCHANGED <<typed, first>>
       \/ /\ typed' = Add(typed, c) /\ Goes(c, "round")
          /\ first' = Set(first, c, IF first[c][H(c)] = "interactive" THEN "password" ELSE first[c][H(c)])
    /\ UNCHANGED <<directory, cancel, at, rounds, policy, restricted, done, gave, gaveUp, shown, hub,
                   logins, windows>>

(* Mutant of Confirm: the key is asked about whenever it changes. *)
ConfirmAgain(c) ==
    LET h == H(c)
        was == shown[c].was
    IN
    /\ pc[c] = "confirm"
    /\ IF was = None /\ pins[h] # None
       THEN /\ policy' = Set(policy, c, pins[h]) /\ restricted' = Set(restricted, c, pins[h])
            /\ Goes(c, "round") /\ UNCHANGED <<asked, windows, listed, reply>>
       ELSE IF (was # None /\ pins[h] # was) \/ cancel[c]
       THEN Goes(c, "failed") /\ UNCHANGED <<policy, restricted, asked, windows, listed, reply>>
       ELSE /\ asked' = Add(asked, c) /\ windows' = [windows EXCEPT ![c][h] = @ + 1]
            /\ listed' = listed \cup {c} /\ reply' = [reply EXCEPT ![c] = None]
            /\ Goes(c, "window") /\ UNCHANGED <<policy, restricted>>
    /\ UNCHANGED <<directory, cancel, at, rounds, freed, count, auth, shown, trusts, logins, questions>>

(* confirm(): a pin made meanwhile is taken into the policy; a host is     *)
(* asked about once; a changed key is shown with its pin (which must still *)
(* be the pin).                                                            *)
Confirm(c) ==
    LET h == H(c)
        was == shown[c].was
    IN
    /\ pc[c] = "confirm"
    /\ IF was = None /\ pins[h] # None
       THEN /\ policy' = Set(policy, c, pins[h]) /\ restricted' = Set(restricted, c, pins[h])
            /\ Goes(c, "round") /\ UNCHANGED <<asked, windows, listed, reply>>
       ELSE IF h \in asked[c] \/ (was # None /\ pins[h] # was) \/ cancel[c]
       THEN Goes(c, "failed") /\ UNCHANGED <<policy, restricted, asked, windows, listed, reply>>
       ELSE /\ asked' = Add(asked, c) /\ windows' = [windows EXCEPT ![c][h] = @ + 1]
            /\ listed' = listed \cup {c} /\ reply' = [reply EXCEPT ![c] = None]
            /\ Goes(c, "window") /\ UNCHANGED <<policy, restricted>>
    /\ UNCHANGED <<directory, cancel, at, rounds, freed, count, auth, shown, trusts, logins, questions>>

(* HostKeyHub::ask(): until the answer, the time limit or the cancel; off  *)
(* the list first, then one more look.                                     *)
StopWaiting(c) ==
    /\ pc[c] = "window"
    /\ listed' = listed \ {c}
    /\ Goes(c, IF reply[c] = "trust" /\ ~cancel[c] THEN "pin" ELSE "failed")
    /\ UNCHANGED <<directory, cancel, at, rounds, policy, restricted, done, auth, shown, reply,
                   trusts, hist>>

(* Mutant of PinConfirmed: whatever is pinned now is replaced. *)
PinConfirmedBlindly(c) ==
    LET h == H(c)
        key == shown[c].key
    IN
    /\ pc[c] = "pin"
    /\ pins' = [pins EXCEPT ![h] = key] /\ ever' = [ever EXCEPT ![h] = @ \cup {key}]
    /\ policy' = Set(policy, c, key) /\ restricted' = Set(restricted, c, key) /\ Goes(c, "round")
    /\ UNCHANGED <<forgets, cancel, at, rounds, done, auth, shown, hub, hist>>

(* Mutant of PinConfirmed: a pin that is refused goes unnoticed. *)
PinConfirmedAnyway(c) ==
    LET h == H(c)
        key == shown[c].key
        pinnable == pins[h] \in {key, shown[c].was}
    IN
    /\ pc[c] = "pin"
    /\ pins' = [pins EXCEPT ![h] = IF pinnable THEN key ELSE @]
    /\ ever' = [ever EXCEPT ![h] = IF pinnable THEN @ \cup {key} ELSE @]
    /\ policy' = Set(policy, c, key) /\ restricted' = Set(restricted, c, key) /\ Goes(c, "round")
    /\ UNCHANGED <<forgets, cancel, at, rounds, done, auth, shown, hub, hist>>

(* pin_confirmed(): decide_pin() or decide_replace(), under the store's    *)
(* lock; the write may fail; then the policy and the target.               *)
PinConfirmed(c) ==
    LET h == H(c)
        key == shown[c].key
    IN
    /\ pc[c] = "pin"
    /\ \/ /\ ~cancel[c] /\ pins[h] \in {key, shown[c].was}
          /\ pins' = [pins EXCEPT ![h] = key] /\ ever' = [ever EXCEPT ![h] = @ \cup {key}]
          /\ policy' = Set(policy, c, key) /\ restricted' = Set(restricted, c, key)
          /\ Goes(c, "round")
       \/ Goes(c, "failed") /\ UNCHANGED <<pins, ever, policy, restricted>>
    /\ UNCHANGED <<forgets, cancel, at, rounds, done, auth, shown, hub, hist>>

-----------------------------------------------------------------------------
(* The person, and the client. *)

(* resolve(): Trust this key or Accept new key, for the key that is shown. *)
Trust(c) ==
    /\ c \in listed /\ reply[c] = None
    /\ reply' = [reply EXCEPT ![c] = "trust"]
    /\ trusts' = trusts \cup {[conn |-> c, host |-> H(c), key |-> shown[c].key, was |-> shown[c].was]}
    /\ UNCHANGED <<directory, cancel, pc, at, rounds, policy, restricted, done, auth, shown, listed, hist>>

(* deny_all(): the window is closed. *)
CloseWindow ==
    /\ listed # {} /\ listed' = {}
    /\ reply' = [c \in Conn |-> IF c \in listed /\ reply[c] = None THEN "refuse" ELSE reply[c]]
    /\ UNCHANGED <<directory, cancel, pc, at, rounds, policy, restricted, done, auth, shown, trusts, hist>>

(* The client goes away. *)
Cancel(c) ==
    /\ ~cancel[c] /\ pc[c] \notin Ended
    /\ cancel' = [cancel EXCEPT ![c] = TRUE]
    /\ UNCHANGED <<directory, pc, at, rounds, policy, restricted, done, auth, shown, hub, hist>>

(* The person forgets the key of a saved host (sync/record_repository.rs,  *)
(* forget_host_key).                                                       *)
Forget(h) ==
    /\ pins[h] # None /\ forgets < MaxForgets
    /\ pins' = [pins EXCEPT ![h] = None] /\ forgets' = forgets + 1
    /\ UNCHANGED <<ever, cancel, pc, at, rounds, policy, restricted, done, auth, shown, hub, hist>>

Step(c) ==
    \/ Resolve(c) \/ Round(c) \/ Prefetch(c) \/ NoCommonType(c) \/ Unreachable(c) \/ LoginOK(c)
    \/ LoginRefused(c) \/ AskPassword(c) \/ Confirm(c) \/ StopWaiting(c) \/ PinConfirmed(c)
    \/ \E k \in Key : Handshake(c, k)

Next ==
    \/ \E c \in Conn : Step(c) \/ Trust(c) \/ Cancel(c)
    \/ \E h \in Host : Forget(h)
    \/ CloseWindow

Spec == Init /\ [][Next]_vars

-----------------------------------------------------------------------------
TypeOK ==
    /\ pins \in [Host -> PinOrNone] /\ forgets \in Nat /\ ever \in [Host -> SUBSET Key]
    /\ cancel \in [Conn -> BOOLEAN] /\ at \in [Conn -> DOMAIN Chain]
    /\ pc \in [Conn -> Ended \cup {"new", "round", "hop", "handshake", "login", "askPassword",
                                  "confirm", "window", "pin"}]
    /\ rounds \in [Conn -> 0..Rounds]
    /\ {policy, restricted} \subseteq [Conn -> [Host -> PinOrNone]]
    /\ {asked, freed, typed, gaveUp} \subseteq [Conn -> SUBSET Host]
    /\ count \in [Conn -> [Host -> 1..NoEntry]]
    /\ first \in [Conn -> [Host -> {"key", "password", "interactive"}]]
    /\ gave \in [Conn -> [Host -> {None, "typed", "keychain"}]]
    /\ shown \in [Conn -> [key : PinOrNone, was : PinOrNone]]
    /\ listed \subseteq {c \in Conn : pc[c] = "window"}
    /\ reply \in [Conn -> {None, "trust", "refuse"}]
    /\ trusts \subseteq [conn : Conn, host : Host, key : PinOrNone, was : PinOrNone]
    /\ logins \subseteq [conn : Conn, host : Host, key : PinOrNone]
    /\ {windows, questions} \subseteq [Conn -> [Host -> Nat]]

(* A pin is written only for a key that the person trusted in the window   *)
(* of this connection, and only over the pin that window showed (none for  *)
(* a new host): a pin that another connection made or replaced meanwhile   *)
(* is never overwritten.                                                   *)
PinStep ==
    \A h \in Host : pins'[h] \notin {pins[h], None} =>
        \E c \in Conn :
            /\ pc[c] = "pin" /\ pc'[c] # "pin"
            /\ [conn |-> c, host |-> h, key |-> pins'[h], was |-> pins[h]] \in trusts

(* Nothing of a login is sent to a server whose key was never on record    *)
(* for the host: a key is accepted when it is pinned, and pinned when it   *)
(* was confirmed.                                                          *)
LoginsOnlyToPinned == \A l \in logins : l.key \in ever[l.host]

(* A connect asks about a host's key once, and for its password Prompts    *)
(* times at the most, the one before the connection included.              *)
AskedSeldom ==
    \A c \in Conn, h \in Host : windows[c][h] <= 1 /\ questions[c][h] <= Prompts

(* The limit on the rounds is a net: whatever the servers do, whatever     *)
(* other connections pin, no connect that the person answers reaches it.   *)
NetUnused == \A c \in Conn : pc[c] # "tooMany"

(* Once the person gave up the password of a hop nothing more is asked     *)
(* about it or pinned for it in this connect, and no password is kept.     *)
GivenUpStep ==
    \A c \in Conn : \A h \in gaveUp[c] :
        /\ windows'[c][h] = windows[c][h] /\ questions'[c][h] = questions[c][h]
        /\ policy'[c][h] = policy[c][h] /\ h \notin typed'[c]

(* A login is sent only to a server whose key is or was on record; a host  *)
(* key is asked about once per connect and a password Prompts times; and   *)
(* the limit on the rounds is never what ends a connect.                   *)
ConnectBounded == TypeOK /\ LoginsOnlyToPinned /\ AskedSeldom /\ NetUnused

(* A pin is written only for the key the person confirmed, and only over   *)
(* the pin the window showed, whatever other connections do meanwhile; and *)
(* once a password was given up nothing more is asked or pinned there.     *)
PinsAreConfirmed == [][PinStep /\ GivenUpStep]_vars
=============================================================================
