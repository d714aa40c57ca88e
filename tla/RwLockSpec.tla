----------------------------- MODULE RwLockSpec -----------------------------
(***************************************************************************)
(* What an async reader-writer lock promises: readers share it, one        *)
(* upgradable reader is among them at most, a writer has it for itself; and *)
(* it is write-preferring: once a writer announced itself no new reader    *)
(* gets in, and it writes when the readers before it are gone.             *)
(***************************************************************************)
CONSTANT Task         \* the lock operations, and the guards they return

VARIABLES readers,    \* who holds a read guard
          upgradable, \* who holds the upgradable read guard
          intent,     \* the writer that waits for the readers to leave
          writer      \* who holds the write guard

vars == <<readers, upgradable, intent, writer>>

Init == readers = {} /\ upgradable = {} /\ intent = {} /\ writer = {}

Idle(t)      == t \notin readers \cup upgradable \cup intent \cup writer
NoWriter     == writer = {} /\ intent = {}
NoUpgradable == upgradable = {}

Read(t) ==
  /\ Idle(t) /\ NoWriter
  /\ readers' = readers \cup {t}
  /\ UNCHANGED <<upgradable, intent, writer>>

ReadUpgradable(t) ==
  /\ Idle(t) /\ NoWriter /\ NoUpgradable
  /\ upgradable' = {t}
  /\ UNCHANGED <<readers, intent, writer>>

\* A writer, or an upgradable reader that wants to write, announces itself.
Announce(t) ==
  /\ NoWriter /\ upgradable \in {{}, {t}} /\ t \notin readers
  /\ intent' = {t} /\ upgradable' = {}
  /\ UNCHANGED <<readers, writer>>

Write(t) ==
  /\ intent = {t} /\ readers = {}
  /\ writer' = {t} /\ intent' = {}
  /\ UNCHANGED <<readers, upgradable>>

Withdraw(t) ==
  /\ t \in intent
  /\ intent' = {}
  /\ UNCHANGED <<readers, upgradable, writer>>

\* try_write and try_upgrade, when nobody else has the lock.
WriteAtOnce(t) ==
  /\ NoWriter /\ upgradable \in {{}, {t}} /\ readers = {}
  /\ writer' = {t} /\ upgradable' = {}
  /\ UNCHANGED <<readers, intent>>

\* A write guard, or the upgradable one, becomes a read guard.
Downgrade(t) ==
  /\ t \in writer \cup upgradable
  /\ readers' = readers \cup {t}
  /\ writer' = writer \ {t} /\ upgradable' = upgradable \ {t}
  /\ UNCHANGED intent

DowngradeToUpgradable(t) ==
  /\ t \in writer
  /\ upgradable' = {t} /\ writer' = {}
  /\ UNCHANGED <<readers, intent>>

Release(t) ==
  /\ t \in readers \cup upgradable \cup writer
  /\ readers' = readers \ {t}
  /\ writer' = writer \ {t} /\ upgradable' = upgradable \ {t}
  /\ UNCHANGED intent

Next == \E t \in Task :
  \/ Read(t) \/ ReadUpgradable(t) \/ Announce(t) \/ Write(t) \/ Withdraw(t)
  \/ WriteAtOnce(t) \/ Downgrade(t) \/ DowngradeToUpgradable(t) \/ Release(t)

Spec == Init /\ [][Next]_vars
=============================================================================
