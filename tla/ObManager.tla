----------------------------- MODULE ObManager ------------------------------
(***************************************************************************)
(* The object manager (EmuKrnlOb.cpp): reference counts, the handle table, *)
(* names in the \?? directory with its drive letter cache, and the table   *)
(* of host handles behind objects (NativeHandle.cpp), under the Nt calls   *)
(* that use them.                                                          *)
(*                                                                         *)
(* g_ObMtx covers handle and name operations; reference counts are also    *)
(* changed without it, with interlocked instructions.  A call is therefore *)
(* a first step followed by a list of work items, and each item is what    *)
(* the call does between two points where another thread can run.          *)
(*                                                                         *)
(* Xbox threads are pinned to one host core (Threads.cpp), so that an      *)
(* unlocked increment, one instruction, is as atomic as an interlocked one.*)
(* Names are paths below \??; ExAllocatePoolWithTag fails when the objects *)
(* or the handle tables of the model are used up.                          *)
(***************************************************************************)
EXTENDS Integers, FiniteSets, SequencesExt

CONSTANTS
    Threads,
    Slots,         \* addresses the pool can give to an object
    Dos,           \* ObpDosDevicesDirectoryObject
    Dev,           \* a permanent device object, outside \??
    DriveNames,    \* names of the form "X:"
    OtherNames,
    HandlesPerTable,
    MaxTables,     \* bound: handle tables the pool can provide
    MaxHeld,       \* bound: pointers a thread keeps between two calls
    MaxLeaks,      \* bound: leaked references after which an object is not duplicated any more
    Paths,         \* paths below \??
    Attributes,    \* the OBJ_OPENIF and OBJ_PERMANENT combinations passed
    Calls,         \* the calls each thread makes
    HostHandle,    \* the host handle the device needs is registered (NativeHandle.cpp)
    Null

Objects == Slots \cup {Dos, Dev}
Names == DriveNames \cup OtherNames
Handles == 1 .. (HandlesPerTable * MaxTables - 1)

(* What is left to do of a call, piece by piece; the pieces that create a named object carry  *)
(* its path and attributes.                                                                *)
Items ==
    [op : {"deref", "free", "unregister", "register", "reference", "handle", "duplicate",
           "temporary", "parse", "open"},
     arg : Objects]
    \cup [op : {"close", "closeref"}, arg : Handles]
    \cup [op : {"insert", "link"}, arg : Objects, path : Paths, attrs : Attributes]

ASSUME ObAssumption ==
    /\ IsFiniteSet(Threads) /\ IsFiniteSet(Slots)
    /\ Dos \notin Slots /\ Dev \notin Slots /\ Dos # Dev
    /\ Null \notin Objects \cup Names
    /\ DriveNames \cap OtherNames = {}
    /\ HandlesPerTable \in Nat \ {0, 1}
    /\ MaxTables \in Nat \ {0}
    /\ MaxHeld \in Nat
    /\ MaxLeaks \in Nat
    /\ Paths \subseteq Seq(Names) \ {<<>>}
    /\ Attributes \subseteq SUBSET {"OPENIF", "PERMANENT"}
    /\ DOMAIN Calls = Threads
    /\ HostHandle \in BOOLEAN

VARIABLES
    hdr,     \* OBJECT_HEADER with its name information, by address
    table,   \* contents of the handle table entries in use
    free,    \* the chain of free entries from FirstFreeTableEntry
    tables,  \* handle tables allocated (NextHandleNeedingPool)
    drive,   \* ObpDosDevicesDriveLetterMap
    native,  \* addresses in g_RegisteredObjects
    work,    \* what is left of each thread's call
    held,    \* pointers each thread got from ObReferenceObjectByHandle
    leaked,  \* references that no code path will drop
    fault    \* a null pointer has been dereferenced

vars == <<hdr, table, free, tables, drive, native, work, held, leaked, fault>>

Unused == [Type |-> "free", PointerCount |-> 0, HandleCount |-> 0, Flags |-> {},
           Directory |-> Null, Name |-> Null, LinkTarget |-> Null, Registered |-> FALSE]

(* ObInitSystem leaves the directory with the reference of its global variable, and      *)
(* IoCreateDevice the device with the one of its pointer bias.                          *)
Init ==
    /\ hdr = [o \in Objects |->
                 CASE o = Dos -> [Unused EXCEPT !.Type = "Directory", !.PointerCount = 1,
                                                !.Flags = {"PERMANENT"}]
                   [] o = Dev -> [Unused EXCEPT !.Type = "Device", !.PointerCount = 1,
                                                !.Flags = {"PERMANENT"}]
                   [] OTHER -> Unused]
    /\ table = [h \in Handles |-> Null]
    /\ free = <<>>
    /\ tables = 0
    /\ drive = [n \in DriveNames |-> Null]
    /\ native = {}
    /\ work = [t \in Threads |-> <<>>]
    /\ held = [t \in Threads |-> <<>>]
    /\ leaked = [o \in Objects |-> 0]
    /\ fault = FALSE

-----------------------------------------------------------------------------
(* Names *)

Entries(d, n) == {o \in Objects : hdr[o].Directory = d /\ hdr[o].Name = n}

Target(o) == IF hdr[o].Type = "SymbolicLink" THEN hdr[o].LinkTarget ELSE o

(* ObpLookupElementNameInDirectory: the drive letter cache, then the hash chain. *)
ObpLookupElementNameInDirectory(d, n, resolve) ==
    IF d = Dos /\ resolve /\ n \in DriveNames /\ drive[n] # Null
    THEN drive[n]
    ELSE IF Entries(d, n) = {} THEN Null
    ELSE LET o == CHOOSE e \in Entries(d, n) : TRUE
         IN  IF resolve THEN Target(o) ELSE o

IsDirectory(o) == o # Null /\ hdr[o].Type = "Directory"

(* The objects on the way along a path: each found in the one before, from \?? on. *)
IsWalk(walk, path) ==
    /\ walk[1] = Dos
    /\ \A i \in 1 .. Len(path) - 1 :
          walk[i + 1] = IF IsDirectory(walk[i])
                        THEN ObpLookupElementNameInDirectory(walk[i], path[i], TRUE)
                        ELSE Null

(* The directory that holds the last element of a path, or Null. *)
Parent(path) ==
    (CHOOSE walk \in [1 .. Len(path) -> Objects \cup {Null}] : IsWalk(walk, path))[Len(path)]

(* The object ObpReferenceObjectByName finds; a link itself is found only when a link is  *)
(* asked for.                                                                           *)
Find(path, resolve) ==
    IF IsDirectory(Parent(path))
    THEN ObpLookupElementNameInDirectory(Parent(path), Last(path), resolve)
    ELSE Null

-----------------------------------------------------------------------------
(* Handles *)

(* Fault: entry 0 goes into the free chain too. *)
ExtendedFreeFromZero == [i \in 1 .. HandlesPerTable |-> tables * HandlesPerTable + i - 1]

(* ObpExtendObjectHandleTable: entry 0 is never handed out. *)
ExtendedFree ==
    LET first == IF tables = 0 THEN 1 ELSE 0
    IN  [i \in 1 .. HandlesPerTable - first |-> tables * HandlesPerTable + first + i - 1]

HandlesLeft == free # <<>> \/ tables < MaxTables

(* ObpCreateObjectHandle, when the table has an entry or can be extended. *)
ObpCreateObjectHandle(o) ==
    LET chain == IF free = <<>> THEN ExtendedFree ELSE free
    IN  /\ table' = [table EXCEPT ![Head(chain)] = o]
        /\ free' = Tail(chain)
        /\ tables' = IF free = <<>> THEN tables + 1 ELSE tables

(* ObpDestroyObjectHandle *)
ObpDestroyObjectHandle(h) ==
    /\ table' = [table EXCEPT ![h] = Null]
    /\ free' = <<h>> \o free
    /\ UNCHANGED tables

-----------------------------------------------------------------------------
(* Work items *)

Item(op, x) == [op |-> op, arg |-> x]

Idle(t) == ~fault /\ work[t] = <<>>

At(t, op) == ~fault /\ work[t] # <<>> /\ Head(work[t]).op = op

Arg(t) == Head(work[t]).arg

Then(t, items) == work' = [work EXCEPT ![t] = items \o Tail(@)]

(* The first step of a call: work for the rest of it. *)
Call(t, name, items) ==
    /\ name \in Calls[t]
    /\ Idle(t)
    /\ work' = [work EXCEPT ![t] = items]

AddRef(o) == hdr' = [hdr EXCEPT ![o].PointerCount = @ + 1]

Deref(o) == <<Item("deref", o)>>

(* ObfDereferenceObject: the interlocked decrement, and for the last reference the        *)
(* DeleteProcedure (ObpDeleteSymbolicLink for a link).                                  *)
ObfDereferenceObject(t) ==
    /\ At(t, "deref")
    /\ LET o == Arg(t)
           last == hdr[o].PointerCount = 1
           link == hdr[o].LinkTarget
       IN  /\ hdr' = [hdr EXCEPT ![o].PointerCount = @ - 1,
                                 ![o].LinkTarget = IF last THEN Null ELSE @]
           /\ Then(t, IF ~last THEN <<>>
                      ELSE (IF link # Null THEN Deref(link) ELSE <<>>) \o <<Item("free", o)>>)
    /\ UNCHANGED <<table, free, tables, drive, native, held, leaked, fault>>

(* FreeProcedure gives the memory back; the host handle is removed after that. *)
FreeObject(t) ==
    /\ At(t, "free")
    /\ hdr' = [hdr EXCEPT ![Arg(t)] = Unused]
    /\ Then(t, <<Item("unregister", Arg(t))>>)
    /\ UNCHANGED <<table, free, tables, drive, native, held, leaked, fault>>

(* Fault: the host handle is not removed. *)
RemoveXboxObjectSkipped(t) ==
    /\ At(t, "unregister")
    /\ Then(t, <<>>)
    /\ UNCHANGED <<hdr, table, free, tables, drive, native, held, leaked, fault>>

RemoveXboxObject(t) ==
    /\ At(t, "unregister")
    /\ native' = native \ {Arg(t)}
    /\ Then(t, <<>>)
    /\ UNCHANGED <<hdr, table, free, tables, drive, held, leaked, fault>>

(* RegisterXboxObject retries while the address is still registered.  The two seconds     *)
(* after which it gives up are not modelled.                                            *)
RegisterXboxObject(t) ==
    /\ At(t, "register")
    /\ Arg(t) \notin native
    /\ native' = native \cup {Arg(t)}
    /\ hdr' = [hdr EXCEPT ![Arg(t)].Registered = TRUE]
    /\ Then(t, <<>>)
    /\ UNCHANGED <<table, free, tables, drive, held, leaked, fault>>

(* ObReferenceObjectByPointer, for the handle NtDuplicateObject makes next. *)
ObReferenceObjectByPointer(t) ==
    /\ At(t, "reference")
    /\ AddRef(Arg(t))
    /\ Then(t, <<Item("duplicate", Arg(t))>>)
    /\ UNCHANGED <<table, free, tables, drive, native, held, leaked, fault>>

(* ObpGetHandleByObjectThenDereferenceInline: the reference of the caller becomes the     *)
(* handle's, or is dropped.  NtDuplicateObject returns at once when it fails, without   *)
(* its own dereference: one of its two references is dropped, the other is lost.        *)
ObpGetHandleByObject(t) ==
    /\ \E op \in {"handle", "duplicate"} : At(t, op)
    /\ LET o == Arg(t)
           op == Head(work[t]).op
       IN  \/ /\ HandlesLeft
              /\ ObpCreateObjectHandle(o)
              /\ hdr' = [hdr EXCEPT ![o].HandleCount = @ + 1]
              /\ Then(t, <<>>)
              /\ UNCHANGED leaked
           \/ /\ ~HandlesLeft
              /\ \/ /\ op = "handle"
                    /\ Then(t, Deref(o))
                    /\ UNCHANGED leaked
                 \/ /\ op = "duplicate"
                    /\ Then(t, <<>>)
                    /\ leaked' = [leaked EXCEPT ![o] = @ + 1]
              /\ UNCHANGED <<hdr, table, free, tables>>
    /\ UNCHANGED <<drive, native, held, fault>>

-----------------------------------------------------------------------------
(* ObpDetachNamedObject.  The attached flag stays set, and a second detach follows the    *)
(* null Directory.                                                                      *)

(* Fault: the drive letter stays in the cache. *)
DetachedDriveKept(o) == drive

DetachedDrive(o) ==
    IF hdr[o].Directory = Dos /\ hdr[o].Name \in DriveNames
    THEN [drive EXCEPT ![hdr[o].Name] = Null]
    ELSE drive

Detached(o) == [hdr[o] EXCEPT !.Directory = Null, !.Name = Null]

(* Fault: the count from before the call decides. *)
CanDetachOldCount(o, handles, flags) ==
    hdr[o].HandleCount = 0 /\ "ATTACHED" \in flags /\ "PERMANENT" \notin flags

CanDetach(o, handles, flags) == handles = 0 /\ "ATTACHED" \in flags /\ "PERMANENT" \notin flags

(* Fault: the name's reference is dropped twice. *)
DropNameTwice(o) == Deref(hdr[o].Directory) \o Deref(o) \o Deref(o)

DropName(o) == Deref(hdr[o].Directory) \o Deref(o)

(* ObpClose *)
ObpClose(t) ==
    /\ At(t, "close")
    /\ LET h == Arg(t)
           o == table[h]
           handles == hdr[o].HandleCount - 1
           detach == CanDetach(o, handles, hdr[o].Flags)
           named == hdr[o].Directory # Null
       IN  /\ ObpDestroyObjectHandle(h)
           /\ fault' = (detach /\ ~named)
           /\ hdr' = [hdr EXCEPT ![o] = [(IF detach THEN Detached(o) ELSE @)
                                             EXCEPT !.HandleCount = handles]]
           /\ drive' = IF detach THEN DetachedDrive(o) ELSE drive
           /\ Then(t, (IF detach /\ named THEN DropName(o) ELSE <<>>) \o Deref(o))
    /\ UNCHANGED <<native, held, leaked>>

(* ObMakeTemporaryObject *)
ObMakeTemporaryObject(t) ==
    /\ At(t, "temporary")
    /\ LET o == Arg(t)
           flags == hdr[o].Flags \ {"PERMANENT"}
           detach == CanDetach(o, hdr[o].HandleCount, flags)
           named == hdr[o].Directory # Null
       IN  /\ fault' = (detach /\ ~named)
           /\ hdr' = [hdr EXCEPT ![o] = [(IF detach THEN Detached(o) ELSE @)
                                             EXCEPT !.Flags = flags]]
           /\ drive' = IF detach THEN DetachedDrive(o) ELSE drive
           /\ Then(t, IF detach /\ named THEN DropName(o) ELSE <<>>)
    /\ UNCHANGED <<table, free, tables, native, held, leaked>>

-----------------------------------------------------------------------------
(* ObInsertObject.  The dereference of the new object at its end is the next item. *)

(* Fault: the new handle holds no reference. *)
OpenExistingUncounted(t, o, found, a) ==
    /\ "OPENIF" \in a.attrs
    /\ hdr[found].Type = hdr[o].Type
    /\ HandlesLeft
    /\ ObpCreateObjectHandle(found)
    /\ hdr' = [hdr EXCEPT ![found].HandleCount = @ + 1,
                          ![found].Flags = @ \cup (a.attrs \cap {"PERMANENT"})]
    /\ UNCHANGED drive

(* The name exists already: OBJ_OPENIF opens an object of the same type. *)
OpenExisting(t, o, found, a) ==
    /\ "OPENIF" \in a.attrs
    /\ hdr[found].Type = hdr[o].Type
    /\ HandlesLeft
    /\ ObpCreateObjectHandle(found)
    /\ hdr' = [hdr EXCEPT ![found].HandleCount = @ + 1,
                          ![found].PointerCount = @ + 1,
                          ![found].Flags = @ \cup (a.attrs \cap {"PERMANENT"})]
    /\ UNCHANGED drive

(* The name is new: the object is chained into its directory. *)
Inserted(o, d, a) ==
    [hdr[o] EXCEPT !.HandleCount = @ + 1,
                   !.PointerCount = @ + 2,
                   !.Directory = d,
                   !.Name = Last(a.path),
                   !.Flags = @ \cup {"ATTACHED"} \cup (a.attrs \cap {"PERMANENT"})]

Attach(t, o, d, a) ==
    /\ HandlesLeft
    /\ ObpCreateObjectHandle(o)
    /\ hdr' = [hdr EXCEPT ![o] = Inserted(o, d, a), ![d].PointerCount = @ + 1]
    /\ drive' = IF d = Dos /\ Last(a.path) \in DriveNames
                THEN [drive EXCEPT ![Last(a.path)] = Target(o)]
                ELSE drive

ObInsertObject(t) ==
    /\ At(t, "insert")
    /\ LET o == Arg(t)
           a == Head(work[t])
           d == Parent(a.path)
           found == Find(a.path, TRUE)
       IN  \/ IsDirectory(d) /\ found # Null /\ OpenExisting(t, o, found, a)
           \/ IsDirectory(d) /\ found = Null /\ Attach(t, o, d, a)
           \/ /\ \/ ~IsDirectory(d)
                 \/ found # Null /\ ~("OPENIF" \in a.attrs /\ hdr[found].Type = hdr[o].Type)
                 \/ ~HandlesLeft
              /\ UNCHANGED <<hdr, table, free, tables, drive>>
    /\ Then(t, <<>>)
    /\ UNCHANGED <<native, held, leaked, fault>>

-----------------------------------------------------------------------------
(* ObCreateObject: a new object with one reference. *)

Created(type, link) == [Unused EXCEPT !.Type = type, !.PointerCount = 1, !.LinkTarget = link]

Insert(o, path, attrs) ==
    <<[op |-> "insert", arg |-> o, path |-> path, attrs |-> attrs]>>

ObCreateObject(o, type, link) ==
    /\ o \in Slots
    /\ hdr[o].Type = "free"
    /\ hdr' = [hdr EXCEPT ![o] = Created(type, link)]

NoMemory == \A o \in Slots : hdr[o].Type # "free"

(* NtCreateDirectoryObject; without memory it returns an error and changes nothing. *)
NtCreateDirectoryObject(t) ==
    /\ \E o \in Slots, path \in Paths, attrs \in Attributes :
          /\ ObCreateObject(o, "Directory", Null)
          /\ Call(t, "NtCreateDirectoryObject", Insert(o, path, attrs) \o Deref(o))
    /\ UNCHANGED <<table, free, tables, drive, native, held, leaked, fault>>

(* NtCreateSymbolicLinkObject: ObpResolveLinkTarget, then the link and its insertion.     *)
(* The last element of the target is resolved too, so a link never targets a link.      *)
(* Targets below a device, which go through its parse procedure, are not modelled.      *)
NtCreateSymbolicLinkObject(t) ==
    /\ \E path \in Paths, attrs \in Attributes,
          target \in ({Dev} \cup {Find(p, TRUE) : p \in Paths}) \ {Null} :
          /\ AddRef(target)
          /\ Call(t, "NtCreateSymbolicLinkObject", <<[op |-> "link", arg |-> target, path |-> path, attrs |-> attrs]>>)
    /\ UNCHANGED <<table, free, tables, drive, native, held, leaked, fault>>

CreateLink(t) ==
    /\ At(t, "link")
    /\ LET a == Head(work[t])
       IN  \/ \E o \in Slots :
                 /\ ObCreateObject(o, "SymbolicLink", a.arg)
                 /\ Then(t, Insert(o, a.path, a.attrs) \o Deref(o))
           \/ /\ NoMemory
              /\ Then(t, Deref(a.arg))
              /\ UNCHANGED hdr
    /\ UNCHANGED <<table, free, tables, drive, native, held, leaked, fault>>

(* ObOpenObjectByName for a directory (NtOpenDirectoryObject) or a link                   *)
(* (NtOpenSymbolicLinkObject).                                                          *)
ObOpenObjectByName(t) ==
    /\ \E path \in Paths, type \in {"Directory", "SymbolicLink"} :
          LET found == Find(path, type # "SymbolicLink")
          IN  /\ found # Null
              /\ hdr[found].Type = type
              /\ AddRef(found)
              /\ Call(t, "ObOpenObjectByName", <<Item("handle", found)>>)
    /\ UNCHANGED <<table, free, tables, drive, native, held, leaked, fault>>

(* NtOpenFile on a path that leads to the device: ObpReferenceObjectByName references the *)
(* device and calls IopParseDevice without the lock.                                    *)
NtOpenFile(t) ==
    /\ \E path \in Paths : Find(path, TRUE) = Dev
    /\ AddRef(Dev)
    /\ Call(t, "NtOpenFile", <<Item("parse", Dev)>>)
    /\ UNCHANGED <<table, free, tables, drive, native, held, leaked, fault>>

(* IopParseDevice creates the FileObject; the item keeps the reference to the device too.  *)
(* When IopCheckDeviceAndDriver refuses the device, or without memory, there is none.   *)
IopParseDevice(t) ==
    /\ At(t, "parse")
    /\ \/ \E o \in Slots :
             /\ ObCreateObject(o, "File", Null)
             /\ Then(t, <<Item("open", o)>>)
       \/ /\ Then(t, Deref(Dev))
          /\ UNCHANGED hdr
    /\ UNCHANGED <<table, free, tables, drive, native, held, leaked, fault>>

(* Without a host handle to open the file below, IopParseDevice returns early: ParseCheck  *)
(* is not set and FinalStatus is still a success, so that IoCreateFile dereferences the *)
(* FileObject in two places.                                                            *)
NoRootDirectory(o) == Deref(Dev) \o Deref(o) \o Deref(o)

(* When the host cannot open it ParseCheck is set, and nothing drops the FileObject.       *)
NotOpened(o) == Deref(Dev)

(* The rest of IopParseDevice, which opens the file on the host, and of IoCreateFile.      *)
OpenHostFile(t) ==
    /\ At(t, "open")
    /\ LET o == Arg(t)
       IN  \/ /\ Then(t, <<Item("register", o)>> \o Deref(Dev) \o <<Item("handle", o)>>)
              /\ UNCHANGED leaked
           \/ /\ Then(t, NotOpened(o))
              /\ leaked' = [leaked EXCEPT ![o] = @ + 1]
           \/ /\ ~HostHandle
              /\ Then(t, NoRootDirectory(o))
              /\ UNCHANGED leaked
    /\ UNCHANGED <<hdr, table, free, tables, drive, native, held, fault>>

-----------------------------------------------------------------------------
(* Calls on an open handle.  A title does not close a handle twice. *)

Closing(h) == \E t \in Threads : \E i \in DOMAIN work[t] :
                  work[t][i].op \in {"close", "closeref"} /\ work[t][i].arg = h

Open(h) == table[h] # Null

NtClose(t) ==
    /\ \E h \in Handles :
          /\ Open(h) /\ ~Closing(h)
          /\ AddRef(table[h])
          /\ Call(t, "NtClose", Deref(table[h]) \o <<Item("close", h)>>)
    /\ UNCHANGED <<table, free, tables, drive, native, held, leaked, fault>>

(* NtDuplicateObject, with DUPLICATE_CLOSE_SOURCE or without. *)
NtDuplicateObject(t) ==
    /\ \E h \in Handles, closeSource \in BOOLEAN :
          LET o == table[h]
          IN  /\ Open(h)
              /\ leaked[o] < MaxLeaks
              /\ closeSource => ~Closing(h)
              /\ AddRef(o)
              /\ Call(t, "NtDuplicateObject", (IF closeSource THEN <<Item("closeref", h)>> ELSE <<>>)
                         \o <<Item("reference", o)>> \o Deref(o))
    /\ UNCHANGED <<table, free, tables, drive, native, held, leaked, fault>>

(* The NtClose inside NtDuplicateObject. *)
CloseSource(t) ==
    /\ At(t, "closeref")
    /\ AddRef(table[Arg(t)])
    /\ Then(t, Deref(table[Arg(t)]) \o <<Item("close", Arg(t))>>)
    /\ UNCHANGED <<table, free, tables, drive, native, held, leaked, fault>>

NtMakeTemporaryObject(t) ==
    /\ \E h \in Handles :
          /\ Open(h)
          /\ AddRef(table[h])
          /\ Call(t, "NtMakeTemporaryObject", <<Item("temporary", table[h])>> \o Deref(table[h]))
    /\ UNCHANGED <<table, free, tables, drive, native, held, leaked, fault>>

(* ObReferenceObjectByHandle; for another type than the object's the reference is dropped *)
(* again.                                                                               *)
ObReferenceObjectByHandle(t) ==
    /\ Len(held[t]) < MaxHeld
    /\ \E h \in Handles :
          /\ Open(h)
          /\ AddRef(table[h])
          /\ \/ Call(t, "ObReferenceObjectByHandle", <<>>) /\ held' = [held EXCEPT ![t] = Append(@, table[h])]
             \/ Call(t, "ObReferenceObjectByHandle", Deref(table[h])) /\ UNCHANGED held
    /\ UNCHANGED <<table, free, tables, drive, native, leaked, fault>>

DropPointer(t) ==
    /\ held[t] # <<>>
    /\ Call(t, "ObReferenceObjectByHandle", Deref(Head(held[t])))
    /\ held' = [held EXCEPT ![t] = Tail(@)]
    /\ UNCHANGED <<hdr, table, free, tables, drive, native, leaked, fault>>

-----------------------------------------------------------------------------
Step(t) ==
    \/ ObfDereferenceObject(t)
    \/ FreeObject(t)
    \/ RemoveXboxObject(t)
    \/ RegisterXboxObject(t)
    \/ ObReferenceObjectByPointer(t)
    \/ ObpGetHandleByObject(t)
    \/ ObpClose(t)
    \/ ObMakeTemporaryObject(t)
    \/ ObInsertObject(t)
    \/ CreateLink(t)
    \/ IopParseDevice(t)
    \/ OpenHostFile(t)
    \/ CloseSource(t)

NewCall(t) ==
    \/ NtCreateDirectoryObject(t)
    \/ NtCreateSymbolicLinkObject(t)
    \/ ObOpenObjectByName(t)
    \/ NtOpenFile(t)
    \/ NtClose(t)
    \/ NtDuplicateObject(t)
    \/ NtMakeTemporaryObject(t)
    \/ ObReferenceObjectByHandle(t)
    \/ DropPointer(t)

Next == \E t \in Threads : Step(t) \/ NewCall(t)

Spec == Init /\ [][Next]_vars

-----------------------------------------------------------------------------
(* A work item that has a reference to drop or to hand over; an open of the host file has *)
(* one to the device, too.                                                              *)
Holds(item, o) ==
    \/ item.op \in {"deref", "handle", "duplicate", "link", "parse", "open"} /\ item.arg = o
    \/ item.op = "open" /\ o = Dev

(* The references of running calls, and the pointers threads keep between calls. *)
WorkRefs(o) == UNION {{t} \X {i \in DOMAIN work[t] : Holds(work[t][i], o)} : t \in Threads}

HeldRefs(o) == UNION {{t} \X {i \in DOMAIN held[t] : held[t][i] = o} : t \in Threads}

Count(b) == IF b THEN 1 ELSE 0

(* Everything that refers to an object. *)
Refs(o) ==
    Cardinality({h \in Handles : table[h] = o})
    + Count(hdr[o].Directory # Null)
    + Cardinality({c \in Objects : hdr[c].Directory = o})
    + Cardinality({c \in Objects : hdr[c].LinkTarget = o})
    + Count(o \in {Dos, Dev})
    + Cardinality(WorkRefs(o))
    + Cardinality(HeldRefs(o))

Live == {o \in Objects : hdr[o].Type # "free"}

Headers ==
    [Type : {"free", "Directory", "SymbolicLink", "Device", "File"},
     PointerCount : Nat, HandleCount : Nat, Flags : SUBSET {"PERMANENT", "ATTACHED"},
     Directory : Objects \cup {Null}, Name : Names \cup {Null},
     LinkTarget : Objects \cup {Null}, Registered : BOOLEAN]

(* Every variable keeps its type; above all, no count of references or handles goes below   *)
(* zero, where the unsigned counts of the code would wrap.                              *)
TypeOK ==
    /\ hdr \in [Objects -> Headers]
    /\ table \in [Handles -> Objects \cup {Null}]
    /\ free \in Seq(Handles)
    /\ tables \in 0 .. MaxTables
    /\ drive \in [DriveNames -> Objects \cup {Null}]
    /\ native \in SUBSET Objects
    /\ work \in [Threads -> Seq(Items)]
    /\ held \in [Threads -> Seq(Objects)]
    /\ leaked \in [Objects -> Nat]
    /\ fault \in BOOLEAN

(* The reference count of an object is the number of handles, directory entries, links    *)
(* and running calls that refer to it, plus what was lost: one by each NtDuplicateObject *)
(* without a free handle and by each file the host could not open, and nowhere else.     *)
(* However the calls of several threads interleave, none is counted twice or dropped     *)
(* early.                                                                                *)
RefCountExact == \A o \in Objects : hdr[o].PointerCount = Refs(o) + leaked[o]

(* The free chain and the entries in use partition the allocated part of the handle       *)
(* table, and each object's HandleCount is the number of entries that hold it: a handle *)
(* never resolves to a freed object or to two objects.                                  *)
HandleTableSound ==
    LET used == {h \in Handles : table[h] # Null}
    IN  /\ IsInjective(free)
        /\ used \cap Range(free) = {}
        /\ used \cup Range(free) = {h \in Handles : h < tables * HandlesPerTable}
        /\ \A o \in Objects : hdr[o].HandleCount = Cardinality({h \in used : table[h] = o})

(* Inserting under OBJ_OPENIF and detaching race, and still a name in a directory leads    *)
(* to one object, the directory is alive while it has entries, and a name entered there *)
(* is only kept for an object that is open or permanent.                                *)
NamesSound ==
    \A o \in Objects : LET d == hdr[o].Directory IN
        d # Null => /\ hdr[d].Type = "Directory"
                    /\ Entries(d, hdr[o].Name) = {o}
                    /\ hdr[o].HandleCount > 0 \/ "PERMANENT" \in hdr[o].Flags

(* The drive letter cache gives what searching the directory would give: no entry         *)
(* survives the link it was made from, and none misses.                                 *)
DriveMapFresh ==
    \A n \in DriveNames :
        drive[n] = IF Entries(Dos, n) = {} THEN Null
                   ELSE Target(CHOOSE o \in Entries(Dos, n) : TRUE)

(* What the object manager promises of an object's life: see ObLifetime. *)
Lifetime == INSTANCE ObLifetime WITH
    live <- Live,
    users <- [o \in Objects |-> Refs(o)]

(* An object is usable as long as anything refers to it, is destroyed once, and nobody     *)
(* gets hold of it after its last user is gone.                                         *)
ImplementsLifetime == Lifetime!Spec

(* RegisterXboxObject retries only while the thread that freed the address has yet to     *)
(* remove its host handle: the retry ends without the two second limit.                 *)
RetryEnds ==
    \A t \in Threads : At(t, "register") /\ Arg(t) \in native =>
        \E u \in Threads \ {t} : Item("unregister", Arg(t)) \in Range(work[u])

(* An object is dereferenced as long as it is not destroyed: the second of two             *)
(* dereferences never follows the first one's DeleteProcedure.                          *)
NoDropAfterDestroy == \A t \in Threads : At(t, "deref") => hdr[Arg(t)].Type # "free"
=============================================================================
