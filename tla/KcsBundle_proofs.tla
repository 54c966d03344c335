-------------------------- MODULE KcsBundle_proofs --------------------------
(***************************************************************************)
(* Proofs about the reviewer session of KcsBundle, whatever the reviewer   *)
(* and the provider do. IInv says which files the write under way has put  *)
(* in place and which its clean-up still has to unlink: a manifest is      *)
(* never followed by a file of another bundle, and a write is all or       *)
(* nothing as far as its clean-up gets. PacketsInv keeps in each packet    *)
(* what its builder had checked, because what it was built from may be     *)
(* gone. In between is what the parser of HTML accepts: only what opens    *)
(* and closes evenly.                                                      *)
(***************************************************************************)
EXTENDS KcsBundle, SequenceFacts

-----------------------------------------------------------------------------
(* The files of a bundle: the manifest first, none twice *)

LEMMA AllFilesFacts ==
  /\ AllFiles \in Seq(Names) /\ Len(AllFiles) = 8 /\ AllFiles[1] = "manifest"
  /\ \A i \in 1 .. 8 : AllFiles[i] \in Names
  /\ \A i, j \in 1 .. 8 : i # j => AllFiles[i] # AllFiles[j]
BY DEF AllFiles, Names

LEMMA FilesFacts ==
  ASSUME NEW k
  PROVE  /\ Len(Files(k)) \in 6 .. 8 /\ DOMAIN Files(k) = 1 .. Len(Files(k))
         /\ 1 \in 1 .. Len(Files(k)) /\ Files(k)[1] = "manifest"
         /\ \A i \in 1 .. Len(Files(k)) : Files(k)[i] \in Names
         /\ \A i, j \in 1 .. Len(Files(k)) : i # j => Files(k)[i] # Files(k)[j]
<1> DEFINE n == IF "draft" \in bundles[k] THEN 8
                ELSE IF "handoff" \in bundles[k] THEN 7 ELSE 6
<1>1. n \in 6 .. 8
  OBVIOUS
<1>2. Files(k) = SubSeq(AllFiles, 1, n)
  BY DEF Files
<1> HIDE DEF n
<1>3. \A i \in 1 .. n : i \in 1 .. 8 /\ AllFiles[i] \in Names
  BY <1>1, AllFilesFacts
<1>4. Len(Files(k)) = n
  BY <1>1, <1>2, <1>3, SubSeqProperties
<1>5. \A i \in 1 .. n : Files(k)[i] = AllFiles[i]
  <2>1. \A i \in 1 .. n - 1 + 1 : Files(k)[i] = AllFiles[1 + i - 1]
    BY <1>1, <1>2, <1>3, SubSeqProperties
  <2> QED
    BY <1>1, <2>1
<1>6. Files(k) \in Seq(Names)
  BY <1>1, <1>2, <1>3, SubSeqProperties
<1>7. 1 \in 1 .. n /\ n \in 6 .. 8
  BY <1>1
<1>8. DOMAIN Files(k) = 1 .. Len(Files(k))
  BY <1>6
<1> QED
  BY <1>3, <1>4, <1>5, <1>7, <1>8, AllFilesFacts

-----------------------------------------------------------------------------
(* The invariant *)

Opened == writing.state = "open"
Cleaning == writing.state = "cleaning"
OwnFiles == Files(writing.bundle)
Done(n) == \E i \in 1 .. writing.next - 1 : n = OwnFiles[i]
ToUndo(n) == \E i \in writing.undo .. writing.next - 1 : n = OwnFiles[i]

\* A file lies only where the bundle it is of lists it.
ListedInv ==
  /\ \A n \in OnDisk : n \in Range(Files(disk.targets[n]))
  /\ writing.state = "none" => OnDisk = {}

\* The write under way has put its files in place one after the other, where
\* none was, and left no temporary of those behind.
OpenInv ==
  Opened =>
    /\ writing.undo = 1
    /\ \A n \in Range(OwnFiles) : disk.targets[n] = IF Done(n) THEN writing.bundle ELSE 0
    /\ \A n \in Names : Done(n) => disk.temps[n] = 0

\* What a clean-up has not come to yet or could not take back is all there is
\* left of its bundle.
CleaningInv ==
  Cleaning =>
    /\ \A n \in Range(OwnFiles) : disk.targets[n] \in {0, writing.bundle}
    /\ \A n \in Names : disk.targets[n] = writing.bundle =>
         ToUndo(n) \/ writing.bundle \in writing.stuck

IInv == TypeOK /\ ManifestOwnsItsFiles /\ ListedInv /\ OpenInv /\ CleaningInv

\* What the invariant needs to know of the types.
LEMMA Types ==
  ASSUME TypeOK
  PROVE  /\ disk.targets \in [Names -> Nat] /\ disk.temps \in [Names -> Nat]
         /\ disk = [targets |-> disk.targets, temps |-> disk.temps]
         /\ writing \in Attempts
         /\ writing.bundle \in Nat /\ writing.next \in 1 .. 8 /\ writing.undo \in 1 .. 8
         /\ writing.temp \in BOOLEAN /\ writing.stuck \in SUBSET Nat
         /\ DOMAIN bundles = 1 .. Len(bundles) /\ Len(bundles) \in Nat
         /\ bundles \in Seq(SUBSET {"handoff", "draft"})
BY DEF TypeOK, Attempts

\* Nothing is under way.
LEMMA IdleInv ==
  ASSUME writing'.state \notin {"open", "cleaning"}, writing'.state # "none",
         writing' \in Attempts, UNCHANGED <<bundles, disk>>, IInv,
         ManifestOwnsItsFiles'
  PROVE  IInv'
<1>1. TypeOK'
  BY DEF IInv, TypeOK, Idle
<1>2. ListedInv'
  BY DEF IInv, ListedInv, OnDisk, Files
<1>3. OpenInv' /\ CleaningInv'
  BY DEF OpenInv, CleaningInv, Opened, Cleaning
<1> QED
  BY <1>1, <1>2, <1>3 DEF IInv

LEMMA InitIInv == Init => IInv
<1> SUFFICES ASSUME Init PROVE IInv
  OBVIOUS
<1>1. /\ bundles = <<>> /\ writing = Attempt("none", 0, {})
      /\ disk = [targets |-> [n \in Names |-> 0], temps |-> [n \in Names |-> 0]]
  BY DEF Init
<1>2. writing.state = "none" /\ writing \in Attempts
  BY <1>1 DEF Attempt, Attempts
<1>3. OnDisk = {} /\ disk.targets["manifest"] = 0
  BY <1>1 DEF OnDisk, Names
<1>4. TypeOK
  BY <1>1, <1>2 DEF TypeOK, Idle
<1>5. ManifestOwnsItsFiles /\ ListedInv
  BY <1>2, <1>3 DEF ManifestOwnsItsFiles, ListedInv
<1>6. OpenInv /\ CleaningInv
  BY <1>2 DEF OpenInv, Opened, CleaningInv, Cleaning
<1> QED
  BY <1>4, <1>5, <1>6 DEF IInv

\* A step of the session leaves the directory alone, which is still empty.
LEMMA SessionStep ==
  ASSUME IInv, writing.state = "none", UNCHANGED <<disk, writing>>,
         \/ UNCHANGED bundles
         \/ \E b \in SUBSET {"handoff", "draft"} : bundles' = Append(bundles, b)
  PROVE  IInv'
<1>1. bundles' \in Seq(SUBSET {"handoff", "draft"})
  <2>1. bundles \in Seq(SUBSET {"handoff", "draft"})
    BY DEF IInv, TypeOK
  <2>2. CASE \E b \in SUBSET {"handoff", "draft"} : bundles' = Append(bundles, b)
    BY <2>1, <2>2, AppendProperties
  <2> QED
    BY <2>1, <2>2
<1>2. TypeOK'
  BY <1>1 DEF IInv, TypeOK, Idle
<1>3. OnDisk = {} /\ OnDisk' = {}
  BY DEF IInv, ListedInv, OnDisk
<1>4. disk'.targets["manifest"] = 0
  BY <1>3 DEF OnDisk, Names
<1>5. ManifestOwnsItsFiles' /\ ListedInv'
  BY <1>3, <1>4 DEF ManifestOwnsItsFiles, ListedInv
<1>6. OpenInv' /\ CleaningInv'
  BY DEF OpenInv, Opened, CleaningInv, Cleaning
<1> QED
  BY <1>2, <1>5, <1>6 DEF IInv

LEMMA WriteStep == IInv /\ Write => IInv'
<1> SUFFICES ASSUME IInv, NEW k \in DOMAIN bundles, Idle,
                    writing' = Attempt(IF Present(k) THEN "refused" ELSE "open", k,
                                       writing.stuck),
                    UNCHANGED <<bundles, disk>>
             PROVE  IInv'
  BY DEF Write
<1>1. k \in 1 .. Len(bundles) /\ k \in Nat
  BY Types DEF IInv
<1>2. /\ writing'.state = (IF Present(k) THEN "refused" ELSE "open")
      /\ writing'.bundle = k /\ writing'.next = 1 /\ writing'.undo = 1
      /\ writing'.stuck = writing.stuck /\ writing' \in Attempts
  <2>1. writing.stuck \in SUBSET Nat
    BY Types DEF IInv
  <2> QED
    BY <1>1, <2>1 DEF Attempt, Attempts
<1>3. ManifestOwnsItsFiles'
  <2>1. \A n : Files(n)' = Files(n)
    BY DEF Files
  <2> QED
    BY <1>2, <2>1 DEF IInv, ManifestOwnsItsFiles, OnDisk, Idle
<1>4. CASE Present(k)
  BY <1>2, <1>3, <1>4, IdleInv
<1>5. CASE ~ Present(k)
  <2>1. Files(k)' = Files(k) /\ OwnFiles' = Files(k)
    BY <1>2 DEF Files, OwnFiles
  <2>2. 1 \in 1 .. Len(Files(k))
    BY FilesFacts
  <2>3. TypeOK'
    BY <1>1, <1>2, <2>1, <2>2 DEF IInv, TypeOK
  <2>4. \A n : ~ Done(n)'
    BY <1>2 DEF Done
  <2>5. \A n \in Range(Files(k)) : disk.targets[n] = 0
    BY <1>5 DEF Present
  <2>6. OpenInv'
    BY <1>2, <2>1, <2>4, <2>5 DEF OpenInv
  <2>7. CleaningInv'
    BY <1>2, <1>5 DEF CleaningInv, Cleaning
  <2>8. ListedInv'
    <3>1. \A n : Files(n)' = Files(n)
      BY DEF Files
    <3> QED
      BY <1>2, <1>5, <3>1 DEF IInv, ListedInv, OnDisk
  <2> QED
    BY <1>3, <2>3, <2>6, <2>7, <2>8 DEF IInv
<1> QED
  BY <1>4, <1>5

-----------------------------------------------------------------------------
(* The steps of a write *)

\* The file at hand is none of those already written.
LEMMA FileAtHand ==
  ASSUME IInv, ~ Idle
  PROVE  /\ File \in Names /\ File \in Range(OwnFiles) /\ ~Done(File)
         /\ writing.bundle \in 1 .. Len(bundles) /\ writing.bundle \in Nat \ {0}
         /\ writing.next \in 1 .. Len(OwnFiles) /\ Len(OwnFiles) \in 6 .. 8
         /\ writing.undo \in 1 .. writing.next
         /\ writing.next = 1 <=> File = "manifest"
         /\ writing.next # 1 => Done("manifest")
         /\ "manifest" \in Range(OwnFiles)
<1> DEFINE f == OwnFiles
           i == writing.next
<1>1. /\ Len(f) \in 6 .. 8 /\ 1 \in 1 .. Len(f) /\ f[1] = "manifest"
      /\ DOMAIN f = 1 .. Len(f)
      /\ \A j \in 1 .. Len(f) : f[j] \in Names
      /\ \A j, m \in 1 .. Len(f) : j # m => f[j] # f[m]
  BY FilesFacts DEF OwnFiles
<1>2. /\ i \in 1 .. Len(f) /\ writing.bundle \in 1 .. Len(bundles)
      /\ Len(bundles) \in Nat /\ writing.undo \in 1 .. 8 /\ writing.undo <= i
  BY Types DEF IInv, TypeOK, OwnFiles
<1>3. File = f[i]
  BY DEF File, OwnFiles
<1>4. \A j \in 1 .. i - 1 : j \in 1 .. Len(f) /\ j # i
  BY <1>1, <1>2
<1> HIDE DEF f
<1>5. ~Done(File)
  BY <1>1, <1>2, <1>3, <1>4 DEF Done, f
<1>6. i # 1 => 1 \in 1 .. i - 1
  BY <1>1, <1>2
<1>7. i # 1 => Done("manifest")
  BY <1>1, <1>6 DEF Done, f
<1>8. File \in Range(f) /\ "manifest" \in Range(f)
  BY <1>1, <1>2, <1>3 DEF Range
<1>9. writing.undo \in 1 .. i
  BY <1>1, <1>2
<1> QED
  BY <1>1, <1>2, <1>3, <1>5, <1>7, <1>8, <1>9 DEF f

LEMMA WriteTempStep == IInv /\ WriteTemp => IInv'
<1> SUFFICES ASSUME IInv, WriteTemp PROVE IInv'
  OBVIOUS
<1>1. /\ Opened /\ ~ Idle /\ UNCHANGED bundles
      /\ disk' = [disk EXCEPT !.temps[File] = writing.bundle]
      /\ writing' = [writing EXCEPT !.temp = TRUE]
  BY DEF WriteTemp, Idle, Opened
<1>2. /\ disk.targets \in [Names -> Nat] /\ disk.temps \in [Names -> Nat]
      /\ writing.bundle \in Nat /\ File \in Names /\ ~Done(File)
      /\ disk = [targets |-> disk.targets, temps |-> disk.temps]
  BY <1>1, Types, FileAtHand DEF IInv
<1>3. /\ disk'.targets = disk.targets
      /\ disk'.temps = [disk.temps EXCEPT ![File] = writing.bundle]
      /\ disk' \in [targets : [Names -> Nat], temps : [Names -> Nat]]
  BY <1>1, <1>2
<1>4. /\ writing'.state = writing.state /\ writing'.bundle = writing.bundle
      /\ writing'.next = writing.next /\ writing'.undo = writing.undo
      /\ writing'.stuck = writing.stuck /\ writing' \in Attempts
  BY <1>1, Types DEF IInv, Attempts
<1>5. (\A k : Files(k)' = Files(k)) /\ OwnFiles' = OwnFiles /\ \A n : Done(n)' <=> Done(n)
  BY <1>1, <1>4 DEF Files, OwnFiles, Done
<1>6. TypeOK'
  BY <1>1, <1>3, <1>4, <1>5 DEF IInv, TypeOK, Idle
<1>7. ManifestOwnsItsFiles' /\ ListedInv'
  BY <1>3, <1>4, <1>5 DEF IInv, ManifestOwnsItsFiles, ListedInv, OnDisk
<1>8. OpenInv'
  BY <1>1, <1>2, <1>3, <1>4, <1>5 DEF IInv, OpenInv
<1>9. CleaningInv'
  BY <1>1, <1>4 DEF CleaningInv, Cleaning, Opened
<1> QED
  BY <1>6, <1>7, <1>8, <1>9 DEF IInv

\* What a rename does to the directory, whether it is the last or not.
LEMMA Renamed ==
  ASSUME IInv, Rename
  PROVE  /\ Opened /\ ~ Idle /\ UNCHANGED bundles
         /\ disk'.targets = [disk.targets EXCEPT ![File] = writing.bundle]
         /\ disk'.temps = [disk.temps EXCEPT ![File] = 0]
         /\ disk' \in [targets : [Names -> Nat], temps : [Names -> Nat]]
         /\ disk.targets \in [Names -> Nat] /\ disk.temps \in [Names -> Nat]
         /\ disk.targets[File] = 0
         /\ writing'.bundle = writing.bundle /\ writing'.stuck = writing.stuck
         /\ writing'.undo = 1 /\ writing' \in Attempts
         /\ writing.next = Len(OwnFiles) => writing'.state = "written"
         /\ writing.next # Len(OwnFiles) => writing'.state = "open" /\ writing'.next = writing.next + 1
<1>1. /\ Opened /\ ~ Idle /\ UNCHANGED bundles
      /\ disk' = [targets |-> [disk.targets EXCEPT ![File] = writing.bundle],
                  temps |-> [disk.temps EXCEPT ![File] = 0]]
      /\ writing' = IF writing.next = Len(OwnFiles) THEN Ended("written")
                    ELSE [writing EXCEPT !.next = writing.next + 1, !.temp = FALSE]
  BY DEF Rename, Idle, Opened, OwnFiles
<1>2. /\ disk.targets \in [Names -> Nat] /\ disk.temps \in [Names -> Nat]
      /\ writing.bundle \in Nat /\ writing.stuck \in SUBSET Nat /\ writing \in Attempts
  BY Types DEF IInv
<1>3. File \in Names /\ File \in Range(OwnFiles) /\ ~ Done(File)
  BY <1>1, FileAtHand
<1>4. disk.targets[File] = 0 /\ writing.undo = 1
  BY <1>1, <1>3 DEF IInv, OpenInv
<1>5. CASE writing.next = Len(OwnFiles)
  <2>1. /\ writing'.state = "written" /\ writing'.bundle = writing.bundle
        /\ writing'.stuck = writing.stuck /\ writing'.undo = 1 /\ writing' \in Attempts
    <3>1. writing' = Attempt("written", writing.bundle, writing.stuck)
      BY <1>1, <1>5 DEF Ended
    <3> QED
      BY <1>2, <3>1 DEF Attempt, Attempts
  <2> QED
    BY <1>1, <1>2, <1>3, <1>4, <1>5, <2>1
<1>6. CASE writing.next # Len(OwnFiles)
  <2>1. writing.next + 1 \in 1 .. 8
    <3> DEFINE l == Len(OwnFiles)
               m == writing.next
    <3>1. m \in 1 .. l /\ l \in 6 .. 8 /\ m # l
      BY <1>1, <1>6, FileAtHand
    <3> HIDE DEF l, m
    <3>2. m + 1 \in 1 .. 8
      BY <3>1
    <3> QED
      BY <3>2 DEF m
  <2>2. /\ writing'.state = "open" /\ writing'.bundle = writing.bundle
        /\ writing'.next = writing.next + 1
        /\ writing'.stuck = writing.stuck /\ writing'.undo = writing.undo
        /\ writing' \in Attempts
    BY <1>1, <1>2, <1>6, <2>1 DEF Attempts, Opened
  <2> QED
    BY <1>1, <1>2, <1>3, <1>4, <1>6, <2>2
<1> QED
  BY <1>5, <1>6

LEMMA RenameStep == IInv /\ Rename => IInv'
<1> SUFFICES ASSUME IInv, Rename PROVE IInv'
  OBVIOUS
<1> DEFINE k == writing.bundle
<1>1. /\ Opened /\ ~ Idle /\ UNCHANGED bundles /\ writing.state = "open"
      /\ disk'.targets = [disk.targets EXCEPT ![File] = k]
      /\ disk'.temps = [disk.temps EXCEPT ![File] = 0]
      /\ disk' \in [targets : [Names -> Nat], temps : [Names -> Nat]]
      /\ disk.targets \in [Names -> Nat] /\ disk.temps \in [Names -> Nat]
      /\ writing'.bundle = k /\ writing'.stuck = writing.stuck
      /\ writing'.undo = 1 /\ writing' \in Attempts
      /\ writing.next = Len(OwnFiles) => writing'.state = "written"
      /\ writing.next # Len(OwnFiles) => writing'.state = "open" /\ writing'.next = writing.next + 1
  BY Renamed DEF Opened
<1>2. /\ File \in Names /\ File \in Range(OwnFiles) /\ ~Done(File)
      /\ k \in 1 .. Len(bundles) /\ k \in Nat \ {0}
      /\ writing.next \in 1 .. Len(OwnFiles) /\ Len(OwnFiles) \in 6 .. 8
      /\ Done("manifest") \/ File = "manifest"
      /\ "manifest" \in Range(OwnFiles) /\ "manifest" \in Names
  BY <1>1, FileAtHand DEF Names
<1>3. (\A j : Files(j)' = Files(j)) /\ OwnFiles' = OwnFiles /\ OwnFiles = Files(k)
  BY <1>1 DEF Files, OwnFiles
<1>4. \A n \in Range(OwnFiles) : n \in Names
  BY FilesFacts DEF Range, OwnFiles
<1>5. \A n \in Range(OwnFiles) : disk'.targets[n] = IF Done(n) \/ n = File THEN k ELSE 0
  BY <1>1, <1>2, <1>4 DEF IInv, OpenInv
<1>6. disk'.targets["manifest"] = k
  BY <1>2, <1>5
<1>7. \A n \in Names : n # File => disk'.targets[n] = disk.targets[n]
  BY <1>1
<1>8. disk'.targets[File] = k
  BY <1>2, <1>5
<1>9. ManifestOwnsItsFiles'
  <2>1. \A n \in Range(Files(k)) : disk'.targets[n] \in {0, k}
    BY <1>3, <1>5
  <2>2. ASSUME NEW n \in Names, disk'.targets[n] # 0
        PROVE  disk'.targets[n] \in {k} \cup writing.stuck
    <3>1. CASE n = File
      BY <1>8, <3>1
    <3>2. CASE n # File
      <4>1. disk.targets[n] = disk'.targets[n] /\ n \in OnDisk
        BY <1>7, <2>2, <3>2 DEF OnDisk
      <4>2. disk.targets["manifest"] \in {0, k}
        BY <1>1, <1>2 DEF IInv, OpenInv
      <4>3. disk.targets[n] \in {disk.targets["manifest"]} \cup writing.stuck
        BY <1>1, <4>1 DEF IInv, ManifestOwnsItsFiles
      <4> QED
        BY <2>2, <4>1, <4>2, <4>3
    <3> QED
      BY <3>1, <3>2
  <2> QED
    BY <1>1, <1>3, <1>6, <2>1, <2>2 DEF ManifestOwnsItsFiles, OnDisk
<1>10. ListedInv'
  <2>1. ASSUME NEW n \in Names, disk'.targets[n] # 0
        PROVE  n \in Range(Files(disk'.targets[n]))
    <3>1. CASE n = File
      BY <1>2, <1>3, <1>8, <3>1
    <3>2. CASE n # File
      BY <1>7, <2>1, <3>2 DEF IInv, ListedInv, OnDisk
    <3> QED
      BY <3>1, <3>2
  <2>2. writing'.state # "none"
    BY <1>1
  <2> QED
    BY <1>3, <2>1, <2>2 DEF ListedInv, OnDisk
<1>11. CleaningInv'
  BY <1>1 DEF CleaningInv, Cleaning
<1>12. CASE writing.next = Len(OwnFiles)
  <2>1. writing'.state = "written"
    BY <1>1, <1>12
  <2>2. TypeOK'
    BY <1>1, <2>1 DEF IInv, TypeOK, Idle
  <2>3. OpenInv'
    BY <2>1 DEF OpenInv, Opened
  <2> QED
    BY <1>9, <1>10, <1>11, <2>2, <2>3 DEF IInv
<1>13. CASE writing.next # Len(OwnFiles)
  <2>1. writing'.state = "open" /\ writing'.next = writing.next + 1
    BY <1>1, <1>13
  <2>2. writing.next + 1 \in 1 .. Len(OwnFiles) /\ 1 <= writing.next + 1
    BY <1>2, <1>13
  <2>3. TypeOK'
    BY <1>1, <1>2, <1>3, <2>1, <2>2 DEF IInv, TypeOK, OwnFiles
  <2>4. ASSUME NEW n PROVE Done(n)' <=> Done(n) \/ n = File
    <3>1. \A i : i \in 1 .. (writing.next + 1) - 1 <=>
                 i \in 1 .. writing.next - 1 \/ i = writing.next
      <4>1. \A m \in 1 .. 8 : \A i :
               i \in 1 .. (m + 1) - 1 <=> i \in 1 .. m - 1 \/ i = m
        OBVIOUS
      <4>2. writing.next \in 1 .. 8
        BY Types DEF IInv
      <4> QED
        BY <4>1, <4>2
    <3>2. Done(n)' <=> \E i \in 1 .. (writing.next + 1) - 1 : n = OwnFiles[i]
      BY <1>3, <2>1 DEF Done
    <3>3. File = OwnFiles[writing.next]
      BY DEF File, OwnFiles
    <3> QED
      BY <3>1, <3>2, <3>3 DEF Done
  <2>5. \A n \in Names : Done(n) \/ n = File => disk'.temps[n] = 0
    BY <1>1 DEF IInv, OpenInv
  <2>6. OpenInv'
    BY <1>1, <1>3, <1>5, <2>4, <2>5 DEF OpenInv
  <2> QED
    BY <1>9, <1>10, <1>11, <2>3, <2>6 DEF IInv
<1> QED
  BY <1>12, <1>13

-----------------------------------------------------------------------------
(* The clean-up *)

LEMMA WriteFailsStep == IInv /\ WriteFails => IInv'
<1> SUFFICES ASSUME IInv, WriteFails PROVE IInv'
  OBVIOUS
<1>1. PICK left \in {0, writing.bundle} :
        /\ Opened /\ ~ Idle /\ UNCHANGED bundles
        /\ disk' = IF writing.temp THEN disk ELSE [disk EXCEPT !.temps[File] = left]
        /\ writing' = [writing EXCEPT !.state = "cleaning"]
  BY DEF WriteFails, Idle, Opened
<1>2. /\ disk.targets \in [Names -> Nat] /\ disk.temps \in [Names -> Nat]
      /\ disk = [targets |-> disk.targets, temps |-> disk.temps]
      /\ writing.bundle \in Nat \ {0} /\ File \in Names
  BY <1>1, Types, FileAtHand DEF IInv
<1>3. /\ disk'.targets = disk.targets
      /\ disk' \in [targets : [Names -> Nat], temps : [Names -> Nat]]
  BY <1>1, <1>2
<1>4. /\ writing'.state = "cleaning" /\ writing'.bundle = writing.bundle
      /\ writing'.next = writing.next /\ writing'.undo = writing.undo
      /\ writing'.stuck = writing.stuck /\ writing' \in Attempts
  BY <1>1, Types DEF IInv, Attempts
<1>5. (\A k : Files(k)' = Files(k)) /\ OwnFiles' = OwnFiles /\ OwnFiles = Files(writing.bundle)
  BY <1>1, <1>4 DEF Files, OwnFiles
<1>6. TypeOK'
  BY <1>1, <1>3, <1>4, <1>5 DEF IInv, TypeOK, Idle
<1>7. ManifestOwnsItsFiles' /\ ListedInv'
  BY <1>1, <1>3, <1>4, <1>5 DEF IInv, ManifestOwnsItsFiles, ListedInv, OnDisk, Opened
<1>8. OpenInv'
  BY <1>4 DEF OpenInv, Opened
<1>9. CleaningInv'
  <2>1. \A n \in Range(OwnFiles) : disk.targets[n] \in {0, writing.bundle}
    BY <1>1 DEF IInv, OpenInv
  <2>2. ASSUME NEW n \in Names, disk.targets[n] = writing.bundle PROVE ToUndo(n)'
    <3>1. n \in Range(OwnFiles)
      BY <1>2, <1>5, <2>2 DEF IInv, ListedInv, OnDisk
    <3>2. Done(n) /\ writing.undo = 1
      BY <1>1, <1>2, <2>2, <3>1 DEF IInv, OpenInv
    <3> QED
      BY <1>4, <1>5, <3>2 DEF ToUndo, Done
  <2> QED
    BY <1>3, <1>4, <1>5, <2>1, <2>2 DEF CleaningInv
<1> QED
  BY <1>6, <1>7, <1>8, <1>9 DEF IInv

LEMMA UnlinkTempStep == IInv /\ UnlinkTemp => IInv'
<1> SUFFICES ASSUME IInv, UnlinkTemp PROVE IInv'
  OBVIOUS
<1>1. PICK gone \in BOOLEAN :
        /\ Cleaning /\ ~ Idle /\ UNCHANGED bundles
        /\ disk' = IF gone THEN [disk EXCEPT !.temps[File] = 0] ELSE disk
        /\ writing' = [writing EXCEPT !.temp = FALSE]
  BY DEF UnlinkTemp, Idle, Cleaning
<1>2. /\ disk.targets \in [Names -> Nat] /\ disk.temps \in [Names -> Nat]
      /\ disk = [targets |-> disk.targets, temps |-> disk.temps] /\ File \in Names
  BY <1>1, Types, FileAtHand DEF IInv
<1>3. /\ disk'.targets = disk.targets
      /\ disk' \in [targets : [Names -> Nat], temps : [Names -> Nat]]
  BY <1>1, <1>2
<1>4. /\ writing'.state = writing.state /\ writing'.bundle = writing.bundle
      /\ writing'.next = writing.next /\ writing'.undo = writing.undo
      /\ writing'.stuck = writing.stuck /\ writing' \in Attempts
  BY <1>1, Types DEF IInv, Attempts
<1>5. (\A k : Files(k)' = Files(k)) /\ OwnFiles' = OwnFiles /\ \A n : ToUndo(n)' <=> ToUndo(n)
  BY <1>1, <1>4 DEF Files, OwnFiles, ToUndo
<1>6. TypeOK'
  BY <1>1, <1>3, <1>4, <1>5 DEF IInv, TypeOK, Idle
<1>7. ManifestOwnsItsFiles' /\ ListedInv'
  BY <1>3, <1>4, <1>5 DEF IInv, ManifestOwnsItsFiles, ListedInv, OnDisk
<1>8. OpenInv'
  BY <1>1, <1>4 DEF OpenInv, Opened, Cleaning
<1>9. CleaningInv'
  BY <1>1, <1>3, <1>4, <1>5 DEF IInv, CleaningInv
<1> QED
  BY <1>6, <1>7, <1>8, <1>9 DEF IInv

LEMMA WrittenFilesFacts ==
  ASSUME writing.next \in 1 .. Len(OwnFiles), Len(OwnFiles) \in 6 .. 8
  PROVE  /\ Len(WrittenFiles) = writing.next - 1
         /\ \A i \in 1 .. writing.next - 1 : WrittenFiles[i] = OwnFiles[i]
<1> DEFINE f == OwnFiles
           m == writing.next - 1
<1>1. WrittenFiles = SubSeq(f, 1, m)
  BY DEF WrittenFiles, OwnFiles
<1>2. /\ m \in Nat /\ m <= Len(f) /\ DOMAIN f = 1 .. Len(f)
      /\ \A i \in 1 .. Len(f) : f[i] \in Names
  BY FilesFacts DEF OwnFiles
<1> HIDE DEF f, m
<1>3. \A i \in 1 .. m : i \in 1 .. Len(f) /\ f[i] \in Names
  BY <1>2
<1>4. /\ Len(SubSeq(f, 1, m)) = m
      /\ \A i \in 1 .. m : SubSeq(f, 1, m)[i] = f[i]
  BY <1>2, <1>3, SubSeqProperties
<1> QED
  BY <1>1, <1>4 DEF f, m

\* The file that is unlinked, and what is on the list after it.
LEMMA Unlinked ==
  ASSUME IInv, UnlinkTarget
  PROVE  \E gone \in BOOLEAN :
           LET name == OwnFiles[writing.undo]
           IN /\ Cleaning /\ ~ Idle /\ UNCHANGED bundles
              /\ name \in Names /\ name \in Range(OwnFiles)
              /\ disk' = IF gone THEN [disk EXCEPT !.targets[name] = 0] ELSE disk
              /\ writing'.state = "cleaning" /\ writing'.bundle = writing.bundle
              /\ writing'.next = writing.next /\ writing'.undo = writing.undo + 1
              /\ writing' \in Attempts /\ writing.undo + 1 <= writing.next
              /\ writing'.stuck = IF gone THEN writing.stuck
                                  ELSE writing.stuck \cup {writing.bundle}
<1>1. PICK gone \in BOOLEAN :
        /\ Cleaning /\ ~ Idle /\ UNCHANGED bundles /\ writing.undo <= Len(WrittenFiles)
        /\ disk' = IF gone THEN [disk EXCEPT !.targets[WrittenFiles[writing.undo]] = 0]
                   ELSE disk
        /\ writing' = [writing EXCEPT !.undo = writing.undo + 1,
                         !.stuck = IF gone THEN writing.stuck
                                   ELSE writing.stuck \cup {writing.bundle}]
  BY DEF UnlinkTarget, Idle, Cleaning
<1>2. /\ writing.undo \in 1 .. writing.next /\ writing.next \in 1 .. Len(OwnFiles)
      /\ Len(OwnFiles) \in 6 .. 8 /\ writing.next \in 1 .. 8 /\ writing.bundle \in Nat
      /\ writing \in Attempts /\ writing.stuck \in SUBSET Nat
  BY <1>1, FileAtHand, Types DEF IInv
<1>3. /\ DOMAIN OwnFiles = 1 .. Len(OwnFiles)
      /\ \A i \in 1 .. Len(OwnFiles) : OwnFiles[i] \in Names /\ OwnFiles[i] \in Range(OwnFiles)
  BY FilesFacts DEF OwnFiles, Range
<1>4. /\ Len(WrittenFiles) = writing.next - 1
      /\ \A i \in 1 .. writing.next - 1 : WrittenFiles[i] = OwnFiles[i]
  BY <1>2, WrittenFilesFacts
<1>5. writing.undo \in 1 .. writing.next - 1 /\ writing.undo \in 1 .. Len(OwnFiles)
      /\ writing.undo + 1 \in 1 .. 8 /\ writing.undo + 1 <= writing.next
  <2> DEFINE u == writing.undo
             m == writing.next
             l == Len(OwnFiles)
  <2>1. u \in 1 .. m /\ m \in 1 .. l /\ l \in 6 .. 8 /\ u <= m - 1
    BY <1>1, <1>2, <1>4
  <2> HIDE DEF u, m, l
  <2>2. u \in 1 .. m - 1 /\ u \in 1 .. l /\ u + 1 \in 1 .. 8 /\ u + 1 <= m
    BY <2>1
  <2> QED
    BY <2>2 DEF u, m, l
<1>6. WrittenFiles[writing.undo] = OwnFiles[writing.undo]
  BY <1>4, <1>5
<1>7. /\ writing'.state = "cleaning" /\ writing'.bundle = writing.bundle
      /\ writing'.next = writing.next /\ writing'.undo = writing.undo + 1
      /\ writing' \in Attempts
      /\ writing'.stuck = IF gone THEN writing.stuck ELSE writing.stuck \cup {writing.bundle}
  BY <1>1, <1>2, <1>5 DEF Attempts, Cleaning
<1> DEFINE name == OwnFiles[writing.undo]
<1>8. /\ disk' = IF gone THEN [disk EXCEPT !.targets[name] = 0] ELSE disk
      /\ name \in Names /\ name \in Range(OwnFiles)
  BY <1>1, <1>3, <1>5, <1>6
<1> HIDE DEF name
<1>9. /\ Cleaning /\ ~ Idle /\ UNCHANGED bundles /\ writing.undo + 1 <= writing.next
  BY <1>1, <1>5
<1> QED
  BY <1>7, <1>8, <1>9, Zenon DEF name

LEMMA UnlinkTargetStep == IInv /\ UnlinkTarget => IInv'
<1> SUFFICES ASSUME IInv, UnlinkTarget PROVE IInv'
  OBVIOUS
<1> DEFINE name == OwnFiles[writing.undo]
           k == writing.bundle
<1>1. PICK gone \in BOOLEAN :
        /\ Cleaning /\ ~ Idle /\ UNCHANGED bundles
        /\ name \in Names /\ name \in Range(OwnFiles)
        /\ disk' = IF gone THEN [disk EXCEPT !.targets[name] = 0] ELSE disk
        /\ writing'.state = "cleaning" /\ writing'.bundle = k
        /\ writing'.next = writing.next /\ writing'.undo = writing.undo + 1
        /\ writing' \in Attempts /\ writing.undo + 1 <= writing.next
        /\ writing'.stuck = IF gone THEN writing.stuck ELSE writing.stuck \cup {k}
  BY Unlinked
<1>2. /\ disk.targets \in [Names -> Nat] /\ disk.temps \in [Names -> Nat]
      /\ disk = [targets |-> disk.targets, temps |-> disk.temps]
      /\ k \in Nat \ {0} /\ "manifest" \in Range(OwnFiles) /\ "manifest" \in Names
      /\ writing.undo \in 1 .. writing.next /\ writing.next \in 1 .. 8
  BY <1>1, Types, FileAtHand DEF IInv, Names
<1>3. (\A j : Files(j)' = Files(j)) /\ OwnFiles' = OwnFiles /\ OwnFiles = Files(k)
  BY <1>1 DEF Files, OwnFiles
<1>4. \A n \in Range(OwnFiles) : n \in Names
  BY FilesFacts DEF Range, OwnFiles
<1> HIDE DEF name
<1>5. /\ disk' \in [targets : [Names -> Nat], temps : [Names -> Nat]]
      /\ \A n \in Names : disk'.targets[n] = IF gone /\ n = name THEN 0 ELSE disk.targets[n]
  BY <1>1, <1>2
<1>6. TypeOK'
  BY <1>1, <1>3, <1>5 DEF IInv, TypeOK, OwnFiles, Idle
<1>7. /\ \A n \in Range(OwnFiles) : disk.targets[n] \in {0, k}
      /\ \A n \in Names : disk.targets[n] = k => ToUndo(n) \/ k \in writing.stuck
  BY <1>1 DEF IInv, CleaningInv
<1>8. disk'.targets["manifest"] \in {0, disk.targets["manifest"]}
  BY <1>2, <1>5
<1>9. disk.targets["manifest"] \in {0, k}
  BY <1>2, <1>7
<1>10. ManifestOwnsItsFiles'
  <2>1. disk'.targets["manifest"] # 0 =>
          \A n \in Range(Files(disk'.targets["manifest"])) :
            disk'.targets[n] \in {0, disk'.targets["manifest"]}
    BY <1>3, <1>4, <1>5, <1>7, <1>8, <1>9
  <2>2. ASSUME NEW n \in Names, disk'.targets[n] # 0
        PROVE  disk'.targets[n] \in {k} \cup writing.stuck
    <3>1. disk'.targets[n] = disk.targets[n] /\ n \in OnDisk
      BY <1>5, <2>2 DEF OnDisk
    <3>2. \/ disk.targets[n] \in {disk.targets["manifest"]} \cup writing.stuck
          \/ disk.targets[n] = k
      BY <1>1, <3>1 DEF IInv, ManifestOwnsItsFiles
    <3> QED
      BY <1>9, <2>2, <3>1, <3>2
  <2>3. writing.stuck \subseteq writing'.stuck
    BY <1>1
  <2> QED
    BY <1>1, <1>3, <2>1, <2>2, <2>3 DEF ManifestOwnsItsFiles, OnDisk
<1>11. ListedInv'
  <2>1. \A n \in Names : disk'.targets[n] # 0 => n \in Range(Files(disk'.targets[n]))
    BY <1>5 DEF IInv, ListedInv, OnDisk
  <2>2. writing'.state # "none"
    BY <1>1
  <2> QED
    BY <1>3, <2>1, <2>2 DEF ListedInv, OnDisk
<1>12. OpenInv'
  BY <1>1 DEF OpenInv, Opened
<1>13. CleaningInv'
  <2>1. \A n \in Range(OwnFiles) : disk'.targets[n] \in {0, k}
    BY <1>4, <1>5, <1>7
  <2>2. ASSUME NEW n \in Names, disk'.targets[n] = k, k \notin writing'.stuck
        PROVE  ToUndo(n)'
    <3>1. gone /\ k \notin writing.stuck /\ n # name /\ disk.targets[n] = k
      BY <1>1, <1>2, <1>5, <2>2
    <3>2. PICK i \in writing.undo .. writing.next - 1 : n = OwnFiles[i]
      BY <1>7, <3>1 DEF ToUndo
    <3>3. i # writing.undo
      BY <3>1, <3>2 DEF name
    <3>4. i \in writing.undo + 1 .. writing.next - 1
      BY <1>2, <3>2, <3>3
    <3> QED
      BY <1>1, <1>3, <3>2, <3>4 DEF ToUndo
  <2> QED
    BY <1>1, <1>3, <2>1, <2>2 DEF CleaningInv
<1> QED
  BY <1>6, <1>10, <1>11, <1>12, <1>13 DEF IInv

\* The list is at its end: what is still of this bundle is stuck.
LEMMA AtTheEnd ==
  ASSUME IInv, Cleaning, writing.undo > Len(WrittenFiles), NEW n \in Names,
         disk.targets[n] = writing.bundle
  PROVE  writing.bundle \in writing.stuck
<1>1. ~ Idle
  BY DEF Idle, Cleaning
<1>2. /\ writing.undo \in 1 .. writing.next /\ writing.next \in 1 .. Len(OwnFiles)
      /\ Len(OwnFiles) \in 6 .. 8
  BY <1>1, FileAtHand
<1>3. writing.undo > writing.next - 1
  BY <1>2, WrittenFilesFacts
<1>4. ~ ToUndo(n)
  BY <1>2, <1>3 DEF ToUndo
<1> QED
  BY <1>4 DEF IInv, CleaningInv

LEMMA FailedStep == IInv /\ Failed => IInv'
<1> SUFFICES ASSUME IInv, Failed PROVE IInv'
  OBVIOUS
<1>1. /\ Cleaning /\ UNCHANGED <<bundles, disk>> /\ writing.undo > Len(WrittenFiles)
      /\ writing' = Attempt("failed", writing.bundle, writing.stuck)
  BY DEF Failed, Cleaning, Ended
<1>2. /\ writing'.state = "failed" /\ writing'.stuck = writing.stuck
      /\ writing' \in Attempts
  <2>1. writing.bundle \in Nat /\ writing.stuck \in SUBSET Nat
    BY Types DEF IInv
  <2> QED
    BY <1>1, <2>1 DEF Attempt, Attempts
<1>3. ManifestOwnsItsFiles'
  <2>1. \A n : Files(n)' = Files(n)
    BY <1>1 DEF Files
  <2>2. \A n \in OnDisk : disk.targets[n] \in {disk.targets["manifest"]} \cup writing.stuck
    <3> SUFFICES ASSUME NEW n \in OnDisk, disk.targets[n] = writing.bundle
                 PROVE  writing.bundle \in writing.stuck
      BY DEF IInv, ManifestOwnsItsFiles
    <3> QED
      BY <1>1, AtTheEnd DEF OnDisk
  <2> QED
    BY <1>1, <1>2, <2>1, <2>2 DEF IInv, ManifestOwnsItsFiles, OnDisk
<1> QED
  BY <1>1, <1>2, <1>3, IdleInv

LEMMA CrashStep == IInv /\ Crash => IInv'
<1> SUFFICES ASSUME IInv, Crash PROVE IInv'
  OBVIOUS
<1>1. /\ UNCHANGED <<bundles, disk>> /\ ~ Idle
      /\ writing' = [Attempt("crashed", writing.bundle, writing.stuck) EXCEPT !.stuck =
                       IF writing.state = "cleaning" THEN @ \cup {writing.bundle} ELSE @]
  BY DEF Crash, Ended
<1>2. /\ writing'.state = "crashed" /\ writing' \in Attempts
      /\ writing'.stuck = IF writing.state = "cleaning"
                          THEN writing.stuck \cup {writing.bundle} ELSE writing.stuck
  <2> DEFINE a == Attempt("crashed", writing.bundle, writing.stuck)
             s == IF writing.state = "cleaning" THEN writing.stuck \cup {writing.bundle}
                  ELSE writing.stuck
  <2>1. writing.bundle \in Nat /\ writing.stuck \in SUBSET Nat
    BY Types DEF IInv
  <2>2. a \in Attempts /\ a.state = "crashed" /\ a.stuck = writing.stuck
    BY <2>1 DEF Attempt, Attempts
  <2>3. s \in SUBSET Nat
    BY <2>1
  <2>4. writing' = [a EXCEPT !.stuck = s]
    BY <1>1, <2>2
  <2> HIDE DEF a, s
  <2>5. writing'.state = "crashed" /\ writing' \in Attempts /\ writing'.stuck = s
    BY <2>2, <2>3, <2>4 DEF Attempts
  <2> QED
    BY <2>5 DEF s
<1>3. ManifestOwnsItsFiles'
  <2>1. \A n : Files(n)' = Files(n)
    BY <1>1 DEF Files
  <2>2. \A n \in OnDisk : disk.targets[n] \in {disk.targets["manifest"]} \cup writing'.stuck
    BY <1>2 DEF IInv, ManifestOwnsItsFiles
  <2> QED
    BY <1>1, <2>1, <2>2 DEF IInv, ManifestOwnsItsFiles, OnDisk
<1> QED
  BY <1>1, <1>2, <1>3, IdleInv

LEMMA NextStep == IInv /\ [Next]_vars => IInv'
<1> SUFFICES ASSUME IInv, [Next]_vars PROVE IInv'
  OBVIOUS
<1>1. CASE writing.state = "none" /\
             (\/ Edit \/ Validate \/ Decide \/ Render \/ Report \/ AskHandoff
              \/ AskDraft \/ Respond \/ MakeDraft \/ Smoke)
  <2>1. UNCHANGED <<disk, writing, bundles>>
    BY <1>1 DEF Edit, Validate, Decide, Render, Report, AskHandoff, AskDraft, Respond,
                MakeDraft, Smoke, Make
  <2> QED
    BY <1>1, <2>1, SessionStep
<1>2. CASE writing.state = "none" /\ Build
  <2>1. /\ UNCHANGED <<disk, writing>>
        /\ \E b \in SUBSET {"handoff", "draft"} : bundles' = Append(bundles, b)
    BY <1>2 DEF Build
  <2> QED
    BY <1>2, <2>1, SessionStep
<1>3. CASE UNCHANGED vars
  <2>1. UNCHANGED <<disk, writing, bundles>>
    BY <1>3 DEF vars
  <2>2. /\ \A k : Files(k)' = Files(k)
        /\ OwnFiles' = OwnFiles /\ OnDisk' = OnDisk
        /\ \A n : (Done(n)' <=> Done(n)) /\ (ToUndo(n)' <=> ToUndo(n))
    BY <2>1 DEF Files, Done, ToUndo, OwnFiles, OnDisk
  <2>3. TypeOK'
    BY <2>1, <2>2 DEF IInv, TypeOK, Idle
  <2>4. ManifestOwnsItsFiles' /\ ListedInv'
    BY <2>1, <2>2 DEF IInv, ManifestOwnsItsFiles, ListedInv
  <2>5. OpenInv' /\ CleaningInv'
    BY <2>1, <2>2 DEF IInv, OpenInv, CleaningInv, Opened, Cleaning
  <2> QED
    BY <2>3, <2>4, <2>5 DEF IInv
<1> QED
  BY <1>1, <1>2, <1>3, WriteStep, WriteTempStep, RenameStep, WriteFailsStep, UnlinkTempStep,
     UnlinkTargetStep, FailedStep, CrashStep
     DEF Next

\* The invariant holds in every state of every behaviour.
THEOREM SpecIInv == Spec => []IInv
BY InitIInv, NextStep, PTL DEF Spec

\* Where a directory has a manifest, no file it lists is of another bundle, and
\* whatever else lies there a clean-up has not taken back: through failed writes,
\* unlinks that fail, crashes in the write or the clean-up, and later attempts
\* with any other bundles (write_reviewer_bundle, _cleanup_path).
THEOREM ManifestOwnsItsFiles_Thm == Spec => []ManifestOwnsItsFiles
BY SpecIInv, PTL DEF IInv

\* The last rename: every file of the bundle is there, no temporary of it is.
LEMMA WrittenFacts ==
  ASSUME IInv, Rename, writing'.state = "written", NEW n \in Range(Files(writing'.bundle))
  PROVE  disk'.targets[n] = writing'.bundle /\ disk'.temps[n] = 0
<1>1. /\ Opened /\ ~ Idle
      /\ disk'.targets = [disk.targets EXCEPT ![File] = writing.bundle]
      /\ disk'.temps = [disk.temps EXCEPT ![File] = 0]
      /\ disk.targets \in [Names -> Nat] /\ disk.temps \in [Names -> Nat]
      /\ writing'.bundle = writing.bundle /\ writing.next = Len(OwnFiles)
  BY Renamed
<1>2. /\ File \in Names /\ File = OwnFiles[writing.next]
      /\ writing.next \in 1 .. Len(OwnFiles) /\ Len(OwnFiles) \in 6 .. 8
  BY <1>1, FileAtHand DEF File, OwnFiles
<1>3. n \in Range(OwnFiles)
  BY <1>1 DEF OwnFiles
<1>4. PICK i \in 1 .. Len(OwnFiles) : n = OwnFiles[i]
  BY <1>3, FilesFacts DEF Range, OwnFiles
<1>5. n \in Names
  BY <1>4, FilesFacts DEF OwnFiles
<1>6. i \in 1 .. writing.next - 1 \/ i = writing.next
  BY <1>1, <1>2, <1>4
<1>7. Done(n) \/ n = File
  BY <1>2, <1>4, <1>6 DEF Done
<1>8. Done(n) => disk.targets[n] = writing.bundle /\ disk.temps[n] = 0
  BY <1>1, <1>3, <1>5 DEF IInv, OpenInv
<1> QED
  BY <1>1, <1>2, <1>5, <1>7, <1>8

\* What a step may not do to what is of another bundle, or was written.
Untouched ==
  \A n \in OnDisk : disk.targets[n] # writing.bundle \/ writing.state = "written" =>
    disk'.targets[n] = disk.targets[n]

\* A write that ends leaves all its files and none of its temporaries; one that
\* fails leaves no file, unless a clean-up of its bundle could not unlink one or
\* died; what is of another bundle stays, and so does what was written.
THEOREM WriteIsAllOrNothing_Thm == Spec => WriteIsAllOrNothing
<1> DEFINE AllOrNothing ==
      /\ writing'.state = "written" =>
           \A n \in Range(Files(writing'.bundle)) :
             disk'.targets[n] = writing'.bundle /\ disk'.temps[n] = 0
      /\ writing'.state = "failed" =>
           writing'.bundle \in writing'.stuck
             \/ \A n \in Names : disk'.targets[n] # writing'.bundle
      /\ Untouched
<1>1. ASSUME IInv, [Next]_vars
      PROVE  AllOrNothing \/ UNCHANGED <<disk, writing>>
  <2>1. CASE Write
    <3>1. UNCHANGED disk /\ writing'.state \in {"refused", "open"}
      BY <2>1 DEF Write, Attempt
    <3> QED
      BY <3>1 DEF Untouched
  <2>2. CASE WriteTemp \/ WriteFails \/ UnlinkTemp
    <3>1. writing'.state \in {"open", "cleaning"} /\ disk'.targets = disk.targets
      BY <1>1, <2>2 DEF WriteTemp, WriteFails, UnlinkTemp, IInv, TypeOK, Attempts
    <3> QED
      BY <3>1 DEF Untouched
  <2>3. CASE Rename
    <3>1. /\ writing.state = "open" /\ writing'.state \in {"open", "written"}
          /\ disk'.targets = [disk.targets EXCEPT ![File] = writing.bundle]
          /\ disk.targets \in [Names -> Nat] /\ disk.targets[File] = 0
      BY <1>1, <2>3, Renamed DEF Opened
    <3>2. Untouched
      BY <3>1 DEF Untouched, OnDisk
    <3> QED
      BY <1>1, <2>3, <3>1, <3>2, WrittenFacts
  <2>4. CASE UnlinkTarget
    <3> DEFINE name == OwnFiles[writing.undo]
    <3>1. PICK gone \in BOOLEAN :
            /\ Cleaning /\ name \in Range(OwnFiles)
            /\ disk' = IF gone THEN [disk EXCEPT !.targets[name] = 0] ELSE disk
            /\ writing'.state = "cleaning"
      BY <1>1, <2>4, Unlinked
    <3>2. disk.targets[name] \in {0, writing.bundle}
      BY <1>1, <3>1 DEF IInv, CleaningInv
    <3> HIDE DEF name
    <3>3. \A n \in OnDisk : n # name => disk'.targets[n] = disk.targets[n]
      BY <1>1, <3>1, Types DEF IInv, OnDisk
    <3>4. Untouched
      BY <3>1, <3>2, <3>3 DEF Untouched, OnDisk, Cleaning
    <3> QED
      BY <3>1, <3>4
  <2>5. CASE Failed
    <3>1. /\ Cleaning /\ UNCHANGED disk /\ writing.undo > Len(WrittenFiles)
          /\ writing'.state = "failed" /\ writing'.bundle = writing.bundle
          /\ writing'.stuck = writing.stuck
      BY <2>5 DEF Failed, Cleaning, Ended, Attempt
    <3> QED
      BY <1>1, <3>1, AtTheEnd DEF Untouched
  <2>6. CASE Crash
    <3>1. writing'.state = "crashed" /\ UNCHANGED disk
      BY <2>6 DEF Crash, Ended, Attempt
    <3> QED
      BY <3>1 DEF Untouched
  <2>7. CASE ~(Write \/ WriteTemp \/ Rename \/ WriteFails \/ UnlinkTemp \/ UnlinkTarget
               \/ Failed \/ Crash)
    BY <1>1, <2>7 DEF Next, Edit, Validate, Decide, Render, Report, AskHandoff, AskDraft,
                      Respond, MakeDraft, Build, Smoke, Make, vars
  <2> QED
    BY <2>1, <2>2, <2>3, <2>4, <2>5, <2>6, <2>7
<1>2. IInv /\ [Next]_vars => [AllOrNothing]_<<disk, writing>>
  BY <1>1
<1> QED
  BY <1>2, SpecIInv, PTL DEF Spec, WriteIsAllOrNothing, Untouched

-----------------------------------------------------------------------------
(* The HTML a stack of open tags accepts is balanced *)

Tokens == [tag : STRING, kind : {"open", "close", "self"}, attrs : {"none", "href", "other"}]
OpenTags == AllowedTags \ VoidTags

\* The stacks the tokens go through: what is closed is on top.
StackStep(before, token, after) ==
  \/ token.kind = "self" /\ after = before
  \/ token.kind = "open" /\ token.tag \in VoidTags /\ after = before
  \/ token.kind = "open" /\ token.tag \in OpenTags /\ after = Append(before, token.tag)
  \/ token.kind = "close" /\ token.tag \in OpenTags /\ before = Append(after, token.tag)
Stacks(h, tokens) ==
  /\ h \in [0 .. Len(tokens) -> Seq(OpenTags)]
  /\ h[0] = <<>> /\ h[Len(tokens)] = <<>>
  /\ \A i \in 1 .. Len(tokens) : StackStep(h[i - 1], tokens[i], h[i])

Refused == <<"refused">>
StackOf == Seq(OpenTags) \cup {Refused}

LEMMA Fed ==
  ASSUME NEW stack \in StackOf, NEW token \in Tokens
  PROVE  /\ FeedTag(stack, token) \in StackOf
         /\ stack = Refused => FeedTag(stack, token) = Refused
         /\ FeedTag(stack, token) # Refused => StackStep(stack, token, FeedTag(stack, token))
<1> DEFINE new == FeedTag(stack, token)
<1>1. token.kind \in {"open", "close", "self"}
  BY DEF Tokens
<1>2. CASE new = Refused
  BY <1>2 DEF StackOf
<1>3. CASE new # Refused
  <2>1. stack # Refused /\ token.tag \in AllowedTags /\ stack \in Seq(OpenTags)
    BY <1>3 DEF FeedTag, Refused, StackOf
  <2>5. /\ token.kind = "close" =>
             token.tag \notin VoidTags /\ stack # <<>> /\ Last(stack) = token.tag
        /\ new = IF token.kind = "close" THEN Front(stack)
                 ELSE IF token.kind = "open" /\ token.tag \notin VoidTags
                 THEN Append(stack, token.tag) ELSE stack
    BY <1>3, Zenon DEF FeedTag, Refused
  <2>2. CASE token.kind = "self" \/ (token.kind = "open" /\ token.tag \in VoidTags)
    <3>1. new = stack
      BY <2>2, <2>5
    <3> QED
      BY <2>1, <2>2, <3>1 DEF StackStep, StackOf
  <2>3. CASE token.kind = "open" /\ token.tag \notin VoidTags
    <3>1. new = Append(stack, token.tag) /\ token.tag \in OpenTags
      BY <2>1, <2>3, <2>5 DEF OpenTags
    <3>2. new \in Seq(OpenTags)
      BY <2>1, <3>1
    <3> QED
      BY <2>1, <2>3, <3>1, <3>2 DEF StackStep, StackOf
  <2>4. CASE token.kind = "close"
    <3>1. /\ token.tag \notin VoidTags /\ stack # <<>> /\ Last(stack) = token.tag
          /\ new = Front(stack)
      BY <2>4, <2>5
    <3>2. Front(stack) \in Seq(OpenTags) /\ stack = Append(Front(stack), Last(stack))
      BY <2>1, <3>1, FrontLast
    <3>3. token.tag \in OpenTags
      BY <2>1, <3>1 DEF OpenTags
    <3> QED
      BY <2>1, <2>4, <3>1, <3>2, <3>3 DEF StackStep, StackOf
  <2> QED
    BY <1>1, <2>2, <2>3, <2>4
<1> QED
  BY <1>2, <1>3

\* A course of stacks that ends with nothing open was never refused.
LEMMA NeverRefused ==
  ASSUME NEW n \in Nat, NEW h \in [0 .. n -> StackOf], h[n] = <<>>,
         \A i \in 1 .. n : h[i - 1] = Refused => h[i] = Refused
  PROVE  \A i \in 0 .. n : h[i] # Refused
<1> SUFFICES ASSUME NEW i \in 0 .. n, h[i] = Refused PROVE FALSE
  OBVIOUS
<1> DEFINE T == {m \in Nat : i <= m /\ m <= n => h[m] = Refused}
<1>1. 0 \in T
  OBVIOUS
<1>2. ASSUME NEW m \in Nat, m \in T PROVE m + 1 \in T
  <2> SUFFICES ASSUME i <= m + 1, m + 1 <= n PROVE h[m + 1] = Refused
    OBVIOUS
  <2>1. CASE i = m + 1
    BY <2>1
  <2>2. CASE i # m + 1
    <3>1. PICK k \in 1 .. n : k = m + 1 /\ k - 1 = m
      OBVIOUS
    <3>2. h[m] = Refused
      BY <1>2, <2>2
    <3> QED
      BY <3>1, <3>2
  <2> QED
    BY <2>1, <2>2
<1>3. n \in T
  <2> HIDE DEF T
  <2> QED
    BY <1>1, <1>2, SetInduction
<1>4. h[n] = Refused
  BY <1>3
<1>5. Refused # <<>>
  BY DEF Refused
<1> QED
  BY <1>4, <1>5

LEMMA HtmlStacks ==
  ASSUME NEW tokens \in Seq(Tokens), HtmlAccepted(tokens)
  PROVE  \E h : Stacks(h, tokens)
<1> DEFINE n == Len(tokens)
           V == StackOf
           Op(v, i) == FeedTag(v, tokens[i])
           g == [q \in (1 .. n) \X V |-> Op(q[2], q[1])]
           F(it) == [t \in SUBSET (1 .. n) |->
                       IF t = {} THEN <<>> ELSE Op(it[t \ {Max(t)}], Max(t))]
           C == CHOOSE it : it = F(it)
<1>1. n \in Nat /\ DOMAIN tokens = 1 .. n /\ \A i \in 1 .. n : tokens[i] \in Tokens
  OBVIOUS
<1>2. C[1 .. n] = <<>>
  BY <1>1 DEF HtmlAccepted, FoldLeft, MapThenFoldSet
<1>3. \A i \in 1 .. n, v \in V : Op(v, i) \in V
  BY <1>1, Fed
<1>4. <<>> \in V
  BY DEF StackOf
<1>20. \A v, i : Op(v, i) = FeedTag(v, tokens[i])
  OBVIOUS
<1> HIDE DEF n, V, Op
<1>5. \A i \in 1 .. n, v \in V : g[<<i, v>>] = Op(v, i)
  OBVIOUS
<1>6. g \in Steps(n, V)
  BY <1>3 DEF Steps
<1> HIDE DEF g
<1>7. \A t \in SUBSET (1 .. n) : t # {} => Max(t) \in 1 .. n /\ t \ {Max(t)} \in SUBSET (1 .. n)
  BY <1>1, MaxFacts
<1>8. C = F(C)
  <2>1. PICK it : IsFold(it, <<>>, n, g, V)
    BY <1>1, <1>4, <1>6, FoldExists
  <2>2. ASSUME NEW t \in SUBSET (1 .. n)
        PROVE  it[t] = IF t = {} THEN <<>> ELSE Op(it[t \ {Max(t)}], Max(t))
    <3>1. CASE t = {}
      BY <2>1, <3>1 DEF IsFold
    <3>2. CASE t # {}
      BY <2>1, <3>2, <1>5, <1>7 DEF IsFold
    <3> QED
      BY <3>1, <3>2
  <2>3. it = F(it)
    BY <2>1, <2>2 DEF IsFold
  <2> QED
    BY <2>3
<1> HIDE DEF C
<1>9. C[{}] = <<>>
  BY <1>8
<1>10. \A t \in SUBSET (1 .. n) : t # {} /\ C[t \ {Max(t)}] \in V =>
         C[t] = g[<<Max(t), C[t \ {Max(t)}]>>]
  <2> SUFFICES ASSUME NEW t \in SUBSET (1 .. n), t # {}, C[t \ {Max(t)}] \in V
               PROVE  C[t] = g[<<Max(t), C[t \ {Max(t)}]>>]
    OBVIOUS
  <2>1. Max(t) \in 1 .. n
    BY <1>7
  <2>2. C[t] = Op(C[t \ {Max(t)}], Max(t))
    BY <1>8
  <2> QED
    BY <1>5, <2>1, <2>2
<1> HIDE DEF F
<1> DEFINE h == CourseOf(C, n)
<1>11. FoldOn(C, <<>>, n, g, V)
  BY <1>9, <1>10 DEF FoldOn
<1>12. Course(h, <<>>, n, g, V)
  BY <1>1, <1>4, <1>6, <1>11, FoldCourse
<1>13. h[n] = <<>>
  BY <1>1, <1>2 DEF CourseOf
<1> HIDE DEF h
<1>14. /\ h \in [0 .. n -> V] /\ h[0] = <<>>
       /\ \A i \in 1 .. n : h[i - 1] \in V /\ h[i] = FeedTag(h[i - 1], tokens[i])
  <2>1. h \in [0 .. n -> V] /\ h[0] = <<>> /\ \A i \in 1 .. n : i - 1 \in 0 .. n
    BY <1>1, <1>12 DEF Course
  <2>2. \A i \in 1 .. n : h[i - 1] \in V
    BY <2>1
  <2>3. \A i \in 1 .. n : h[i] = Op(h[i - 1], i)
    BY <1>5, <1>12, <2>2 DEF Course
  <2> QED
    BY <1>20, <2>1, <2>2, <2>3
<1>15. \A i \in 0 .. n : h[i] # Refused
  <2>1. \A i \in 1 .. n : h[i - 1] = Refused => h[i] = Refused
    BY <1>1, <1>14, Fed DEF V
  <2> QED
    BY <1>1, <1>13, <1>14, <2>1, NeverRefused DEF V
<1>16. h \in [0 .. n -> Seq(OpenTags)]
  <2>1. \A i \in 0 .. n : h[i] \in Seq(OpenTags)
    BY <1>14, <1>15 DEF V, StackOf
  <2> QED
    BY <1>14, <2>1
<1>17. \A i \in 1 .. n : StackStep(h[i - 1], tokens[i], h[i])
  <2> SUFFICES ASSUME NEW i \in 1 .. n PROVE StackStep(h[i - 1], tokens[i], h[i])
    OBVIOUS
  <2>1. h[i] # Refused /\ h[i - 1] \in StackOf /\ h[i] = FeedTag(h[i - 1], tokens[i])
    <3>1. i \in 0 .. n
      BY <1>1
    <3> QED
      BY <1>14, <1>15, <3>1 DEF V
  <2> QED
    BY <1>1, <2>1, Fed
<1> QED
  BY <1>13, <1>14, <1>16, <1>17 DEF Stacks, n

\* How often a tag is open.
OpenAt(s, tag) == {m \in DOMAIN s : s[m] = tag}
Opens(s, tag) == Cardinality(OpenAt(s, tag))

LEMMA OpenedOnce ==
  ASSUME NEW s \in Seq(OpenTags), NEW t \in OpenTags, NEW tag
  PROVE  /\ Opens(s, tag) \in Nat
         /\ Opens(Append(s, t), tag) = Opens(s, tag) + (IF t = tag THEN 1 ELSE 0)
<1> DEFINE n == Len(s)
           a == OpenAt(s, tag)
           b == OpenAt(Append(s, t), tag)
<1>1. n \in Nat /\ DOMAIN s = 1 .. n
  OBVIOUS
<1>2. IsFiniteSet(a) /\ n + 1 \notin a
  <2>1. IsFiniteSet(1 .. n) /\ a \subseteq 1 .. n
    BY <1>1, FS_Interval DEF OpenAt
  <2>2. n + 1 \notin 1 .. n
    BY <1>1
  <2> QED
    BY <2>1, <2>2, FS_Subset
<1>3. b = IF t = tag THEN a \cup {n + 1} ELSE a
  BY DEF OpenAt
<1> HIDE DEF a, b, n
<1>4. Cardinality(a) \in Nat
  BY <1>2, FS_CardinalityType
<1>5. Cardinality(a \cup {n + 1}) = Cardinality(a) + 1
  BY <1>2, FS_AddElement
<1> QED
  BY <1>3, <1>4, <1>5 DEF Opens, a, b

TagsAt(tokens, i, j, tag, kind) ==
  {k \in i .. j : tokens[k].tag = tag /\ tokens[k].kind = kind}

LEMMA TagsNext ==
  ASSUME NEW tokens, NEW i \in Nat, NEW j \in Nat, i <= j, NEW tag, NEW kind
  PROVE  /\ Tags(tokens, i, j - 1, tag, kind) \in Nat
         /\ Tags(tokens, i, j, tag, kind) = Tags(tokens, i, j - 1, tag, kind)
              + (IF tokens[j].tag = tag /\ tokens[j].kind = kind THEN 1 ELSE 0)
<1> DEFINE a == TagsAt(tokens, i, j - 1, tag, kind)
           b == TagsAt(tokens, i, j, tag, kind)
           here == tokens[j].tag = tag /\ tokens[j].kind = kind
<1>1. IsFiniteSet(a) /\ j \notin a
  <2>1. IsFiniteSet(i .. j - 1) /\ a \subseteq i .. j - 1
    BY FS_Interval DEF TagsAt
  <2>2. j \notin i .. j - 1
    OBVIOUS
  <2> QED
    BY <2>1, <2>2, FS_Subset
<1>2. b = IF here THEN a \cup {j} ELSE a
  <2>1. i .. j = (i .. j - 1) \cup {j}
    OBVIOUS
  <2> QED
    BY <2>1 DEF TagsAt
<1>3. /\ Tags(tokens, i, j - 1, tag, kind) = Cardinality(a)
      /\ Tags(tokens, i, j, tag, kind) = Cardinality(b)
  BY DEF Tags, TagsAt
<1> HIDE DEF a, b
<1>4. Cardinality(a) \in Nat
  BY <1>1, FS_CardinalityType
<1>5. Cardinality(a \cup {j}) = Cardinality(a) + 1
  BY <1>1, FS_AddElement
<1> QED
  BY <1>2, <1>3, <1>4, <1>5

\* Between two stacks as many of a tag are opened and closed as they differ by.
Evened(h, tokens, a, b, tag) ==
  Tags(tokens, a + 1, b, tag, "open") + Opens(h[a], tag)
    = Tags(tokens, a + 1, b, tag, "close") + Opens(h[b], tag)

LEMMA StepEvened ==
  ASSUME NEW tokens \in Seq(Tokens), NEW h, Stacks(h, tokens), NEW tag \in OpenTags,
         NEW a \in 0 .. Len(tokens), NEW b \in 1 .. Len(tokens), a < b,
         Evened(h, tokens, a, b - 1, tag)
  PROVE  Evened(h, tokens, a, b, tag)
<1> DEFINE t == tokens[b]
           opened(j) == Tags(tokens, a + 1, j, tag, "open")
           closed(j) == Tags(tokens, a + 1, j, tag, "close")
           open(j) == Opens(h[j], tag)
<1>1. t \in Tokens /\ a + 1 \in Nat /\ b \in Nat /\ a + 1 <= b /\ b - 1 \in 0 .. Len(tokens)
  OBVIOUS
<1>2. /\ h[a] \in Seq(OpenTags) /\ h[b - 1] \in Seq(OpenTags) /\ h[b] \in Seq(OpenTags)
      /\ StackStep(h[b - 1], t, h[b])
  <2>1. b \in 0 .. Len(tokens)
    OBVIOUS
  <2> QED
    BY <1>1, <2>1 DEF Stacks
<1>3. t.kind \in {"open", "close", "self"}
  BY <1>1 DEF Tokens
<1>4. tag \notin VoidTags
  BY DEF OpenTags
<1>12. opened(b - 1) \in Nat /\ closed(b - 1) \in Nat
  BY <1>1, TagsNext
<1>5. /\ opened(b) = opened(b - 1) + (IF t.tag = tag /\ t.kind = "open" THEN 1 ELSE 0)
      /\ closed(b) = closed(b - 1) + (IF t.tag = tag /\ t.kind = "close" THEN 1 ELSE 0)
  <2>1. \A kind : Tags(tokens, a + 1, b, tag, kind) =
                     Tags(tokens, a + 1, b - 1, tag, kind)
                       + (IF t.tag = tag /\ t.kind = kind THEN 1 ELSE 0)
    BY <1>1, TagsNext
  <2>3. opened(b) = opened(b - 1) + (IF t.tag = tag /\ t.kind = "open" THEN 1 ELSE 0)
    BY <2>1
  <2>4. closed(b) = closed(b - 1) + (IF t.tag = tag /\ t.kind = "close" THEN 1 ELSE 0)
    BY <2>1
  <2> QED
    BY <2>3, <2>4
<1>6. open(a) \in Nat /\ open(b) \in Nat /\ open(b - 1) \in Nat
  BY <1>2, OpenedOnce
<1>7. opened(b - 1) + open(a) = closed(b - 1) + open(b - 1)
  BY DEF Evened
<1>11. opened(b) + open(a) = closed(b) + open(b) => Evened(h, tokens, a, b, tag)
  BY DEF Evened
<1> HIDE DEF opened, closed, open, t
<1>14. CASE t.kind = "self" /\ h[b] = h[b - 1]
  <2>1. open(b) = open(b - 1)
    BY <1>14 DEF open
  <2> QED
    BY <1>5, <1>6, <1>7, <1>11, <1>12, <1>14, <2>1
<1>8. CASE t.kind = "open" /\ t.tag \in VoidTags /\ h[b] = h[b - 1]
  <2>1. open(b) = open(b - 1) /\ t.tag # tag
    BY <1>4, <1>8 DEF open
  <2> QED
    BY <1>5, <1>6, <1>7, <1>11, <1>12, <2>1
<1> DEFINE d == IF t.tag = tag THEN 1 ELSE 0
<1>13. d \in Nat
  OBVIOUS
<1>9. CASE t.kind = "open" /\ t.tag \in OpenTags /\ h[b] = Append(h[b - 1], t.tag)
  <2>1. open(b) = open(b - 1) + d
    BY <1>2, <1>9, OpenedOnce DEF open
  <2>2. opened(b) = opened(b - 1) + d /\ closed(b) = closed(b - 1)
    BY <1>3, <1>5, <1>9, <1>12
  <2> HIDE DEF d
  <2>3. (opened(b - 1) + d) + open(a) = closed(b - 1) + (open(b - 1) + d)
    <3> DEFINE o == opened(b - 1)
               c == closed(b - 1)
               x == open(a)
               y == open(b - 1)
    <3>1. o \in Nat /\ c \in Nat /\ x \in Nat /\ y \in Nat /\ o + x = c + y
      BY <1>6, <1>7, <1>12
    <3> HIDE DEF o, c, x, y
    <3>2. (o + d) + x = c + (y + d)
      BY <1>13, <3>1
    <3> QED
      BY <3>2 DEF o, c, x, y
  <2> QED
    BY <1>11, <2>1, <2>2, <2>3, Zenon
<1>10. CASE t.kind = "close" /\ t.tag \in OpenTags /\ h[b - 1] = Append(h[b], t.tag)
  <2>1. open(b - 1) = open(b) + d
    BY <1>2, <1>10, OpenedOnce DEF open
  <2>2. closed(b) = closed(b - 1) + d /\ opened(b) = opened(b - 1)
    BY <1>3, <1>5, <1>10, <1>12
  <2> HIDE DEF d
  <2>3. opened(b - 1) + open(a) = (closed(b - 1) + d) + open(b)
    <3> DEFINE o == opened(b - 1)
               c == closed(b - 1)
               x == open(a)
               y == open(b)
    <3>1. o \in Nat /\ c \in Nat /\ x \in Nat /\ y \in Nat /\ o + x = c + (y + d)
      BY <1>6, <1>7, <1>12, <2>1
    <3> HIDE DEF o, c, x, y
    <3>2. o + x = (c + d) + y
      BY <1>13, <3>1
    <3> QED
      BY <3>2 DEF o, c, x, y
  <2> QED
    BY <1>11, <2>1, <2>2, <2>3, Zenon
<1> QED
  BY <1>2, <1>8, <1>9, <1>10, <1>14 DEF StackStep

LEMMA AllEvened ==
  ASSUME NEW tokens \in Seq(Tokens), NEW h, Stacks(h, tokens), NEW tag \in OpenTags,
         NEW a \in 0 .. Len(tokens), NEW b \in 0 .. Len(tokens), a <= b
  PROVE  Evened(h, tokens, a, b, tag)
<1> DEFINE n == Len(tokens)
           T == {m \in Nat : a <= m /\ m <= n => Evened(h, tokens, a, m, tag)}
<1>1. n \in Nat
  OBVIOUS
<1>2. Evened(h, tokens, a, a, tag)
  <2>1. a + 1 .. a = {}
    OBVIOUS
  <2>2. \A kind : Tags(tokens, a + 1, a, tag, kind) = Cardinality({})
    BY <2>1 DEF Tags
  <2> QED
    BY <2>2 DEF Evened
<1>3. 0 \in T
  <2>1. a <= 0 => a = 0
    OBVIOUS
  <2> QED
    BY <1>2, <2>1
<1>4. ASSUME NEW m \in Nat, m \in T PROVE m + 1 \in T
  <2> SUFFICES ASSUME a <= m + 1, m + 1 <= n PROVE Evened(h, tokens, a, m + 1, tag)
    OBVIOUS
  <2>1. CASE a = m + 1
    BY <1>2, <2>1
  <2>2. CASE a # m + 1
    <3>1. PICK k \in 1 .. n : k = m + 1 /\ k - 1 = m /\ a < k
      BY <1>1, <2>2
    <3>2. Evened(h, tokens, a, k - 1, tag)
      BY <1>1, <1>4, <2>2, <3>1
    <3> QED
      BY <3>1, <3>2, StepEvened
  <2> QED
    BY <2>1, <2>2
<1>5. b \in T
  <2> HIDE DEF T
  <2> QED
    BY <1>3, <1>4, SetInduction
<1> QED
  BY <1>1, <1>5

\* What is on the stack when a tag is closed was there when it was opened.
LEMMA SameBelow ==
  ASSUME NEW a \in Seq(OpenTags), NEW b \in Seq(OpenTags), NEW l \in Nat \ {0},
         Len(a) >= l, Len(b) >= l,
         \/ b = a \/ \E t \in OpenTags : b = Append(a, t)
         \/ \E t \in OpenTags : a = Append(b, t)
  PROVE  \A m \in 1 .. l : b[m] = a[m]
<1>1. \A m \in 1 .. l : m \in 1 .. Len(a) /\ m \in 1 .. Len(b)
  OBVIOUS
<1>2. ASSUME NEW s \in Seq(OpenTags), NEW t \in OpenTags, NEW m \in 1 .. Len(s)
      PROVE  Append(s, t)[m] = s[m]
  OBVIOUS
<1> QED
  BY <1>1, <1>2

\* One tag more, one less or the same.
LevelStep(a, b) ==
  \/ b = a
  \/ \E t \in OpenTags : b = Append(a, t)
  \/ \E t \in OpenTags : a = Append(b, t)

\* From i to j the stack never has less than l tags.
Levels(n, h, l, i, j) ==
  /\ n \in Nat /\ h \in [0 .. n -> Seq(OpenTags)] /\ l \in Nat \ {0}
  /\ i \in 0 .. n /\ j \in 0 .. n /\ i <= j
  /\ \A k \in i .. j : Len(h[k]) >= l
  /\ \A k \in i + 1 .. j : LevelStep(h[k - 1], h[k])

LEMMA LevelKept ==
  ASSUME NEW n, NEW h, NEW l, NEW i, NEW j, Levels(n, h, l, i, j)
  PROVE  \A m \in 1 .. l : h[j][m] = h[i][m]
<1>0. /\ n \in Nat /\ h \in [0 .. n -> Seq(OpenTags)] /\ l \in Nat \ {0}
      /\ i \in 0 .. n /\ j \in 0 .. n /\ i <= j
  BY DEF Levels
<1> USE <1>0
<1> DEFINE Q(k) == \A m \in 1 .. l : h[k][m] = h[i][m]
           T == {k \in Nat : i <= k /\ k <= j => Q(k)}
<1>1. 0 \in T
  <2>1. i <= 0 => i = 0
    OBVIOUS
  <2> QED
    BY <2>1
<1>2. ASSUME NEW k \in Nat, k \in T PROVE k + 1 \in T
  <2> SUFFICES ASSUME i <= k + 1, k + 1 <= j PROVE Q(k + 1)
    OBVIOUS
  <2>1. CASE i = k + 1
    BY <2>1
  <2>2. CASE i # k + 1
    <3>1. PICK q \in i + 1 .. j : q = k + 1 /\ q - 1 = k
      BY <2>2
    <3>2. Q(k) /\ k \in i .. j /\ q \in i .. j /\ k \in 0 .. n /\ q \in 0 .. n
      BY <1>2, <2>2, <3>1
    <3> DEFINE a == h[k]
               b == h[q]
    <3>3. a \in Seq(OpenTags) /\ b \in Seq(OpenTags) /\ Len(a) >= l /\ Len(b) >= l
      BY <3>2 DEF Levels
    <3>4. LevelStep(a, b)
      BY <3>1 DEF Levels
    <3> HIDE DEF a, b
    <3>5. \A m \in 1 .. l : b[m] = a[m]
      BY <3>3, <3>4, SameBelow DEF LevelStep
    <3> QED
      BY <3>1, <3>2, <3>5 DEF a, b
  <2> QED
    BY <2>1, <2>2
<1>3. j \in T
  <2>1. j \in Nat
    OBVIOUS
  <2> HIDE DEF T
  <2>2. Nat \subseteq T
    BY <1>1, <1>2, SetInduction
  <2> QED
    BY <2>1, <2>2
<1>4. Q(j)
  BY <1>3
<1> QED
  BY <1>4

LEMMA OpenedBefore ==
  ASSUME NEW tokens \in Seq(Tokens), NEW h, Stacks(h, tokens),
         NEW j \in 1 .. Len(tokens), tokens[j].kind = "close"
  PROVE  \E i \in 1 .. j - 1 : /\ tokens[i].tag = tokens[j].tag /\ tokens[i].kind = "open"
                               /\ h[i] = h[j - 1]
<1> DEFINE n == Len(tokens)
           top == h[j - 1]
           l == Len(top)
           T == {i \in 1 .. j - 1 : Len(h[i - 1]) < l}
<1>1. n \in Nat /\ j \in 1 .. n /\ j - 1 \in 0 .. n /\ j \in 0 .. n
  OBVIOUS
<1>2. /\ h \in [0 .. n -> Seq(OpenTags)] /\ h[0] = <<>>
      /\ \A i \in 1 .. n : StackStep(h[i - 1], tokens[i], h[i])
  BY DEF Stacks
<1>3. tokens[j].tag \in OpenTags /\ top = Append(h[j], tokens[j].tag)
  BY <1>1, <1>2 DEF StackStep
<1>4. top \in Seq(OpenTags) /\ h[j] \in Seq(OpenTags)
  BY <1>1, <1>2
<1>5. l \in Nat \ {0} /\ top[l] = tokens[j].tag
  BY <1>3, <1>4
<1>6. j - 1 # 0
  <2> SUFFICES ASSUME j - 1 = 0 PROVE FALSE
    OBVIOUS
  <2>1. top = <<>>
    BY <1>2
  <2> QED
    BY <1>5, <2>1
<1> HIDE DEF top, l
<1>7. 1 \in T
  <2>1. 1 \in 1 .. j - 1
    BY <1>1, <1>6
  <2>2. Len(h[1 - 1]) = 0
    BY <1>2
  <2> QED
    BY <1>5, <2>1, <2>2
<1> DEFINE i == Max(T)
<1>8. i \in T /\ \A k \in T : k <= i
  <2>2. j - 1 \in Nat
    BY <1>1
  <2>3. T \subseteq 1 .. j - 1
    OBVIOUS
  <2>4. T # {}
    BY <1>7
  <2> HIDE DEF T
  <2> QED
    BY <2>2, <2>3, <2>4, MaxFacts
<1> HIDE DEF i
<1>9. i \in 1 .. j - 1 /\ i \in 0 .. n /\ i - 1 \in 0 .. n /\ i \in 1 .. n /\ Len(h[i - 1]) < l
  BY <1>1, <1>8
<1>10. \A k \in i .. j - 1 : Len(h[k]) >= l
  <2> SUFFICES ASSUME NEW k \in i .. j - 1 PROVE Len(h[k]) >= l
    OBVIOUS
  <2>1. CASE k = j - 1
    BY <1>4, <2>1 DEF top, l
  <2>2. CASE k # j - 1
    <3>1. PICK q \in 1 .. j - 1 : q = k + 1 /\ q - 1 = k /\ q > i
      BY <1>9, <2>2
    <3>2. q \notin T
      <4>1. i \in Nat /\ q \in Nat /\ ~ q <= i
        BY <1>1, <1>9, <3>1
      <4> HIDE DEF T
      <4> QED
        BY <1>8, <4>1
    <3>3. Len(h[k]) \in Nat
      BY <1>1, <1>2, <1>9
    <3> QED
      BY <1>5, <3>1, <3>2, <3>3
  <2> QED
    BY <2>1, <2>2
<1>11. i \in i .. j - 1
  BY <1>9
<1>12. /\ h[i] \in Seq(OpenTags) /\ h[i - 1] \in Seq(OpenTags) /\ Len(h[i]) >= l
       /\ StackStep(h[i - 1], tokens[i], h[i])
  BY <1>2, <1>9, <1>10, <1>11
<1>13. tokens[i].kind = "open" /\ h[i] = Append(h[i - 1], tokens[i].tag) /\ tokens[i].tag \in OpenTags
  <2>1. Len(h[i]) > Len(h[i - 1])
    BY <1>5, <1>9, <1>12
  <2>2. CASE h[i] = h[i - 1]
    BY <1>12, <2>1, <2>2
  <2>3. CASE \E t \in OpenTags : h[i - 1] = Append(h[i], t)
    BY <1>12, <2>1, <2>3
  <2> QED
    BY <1>12, <2>2, <2>3 DEF StackStep
<1>14. Len(h[i]) = l /\ h[i][l] = tokens[i].tag
  BY <1>5, <1>9, <1>12, <1>13
<1>15. \A m \in 1 .. l : top[m] = h[i][m]
  <2>1. \A k \in i + 1 .. j - 1 : LevelStep(h[k - 1], h[k])
    <3> SUFFICES ASSUME NEW k \in i + 1 .. j - 1 PROVE LevelStep(h[k - 1], h[k])
      OBVIOUS
    <3>1. k \in 1 .. n
      BY <1>1, <1>9
    <3> QED
      BY <1>2, <3>1 DEF StackStep, LevelStep
  <2>2. i <= j - 1
    BY <1>9
  <2> DEFINE p == j - 1
  <2>3. /\ n \in Nat /\ h \in [0 .. n -> Seq(OpenTags)] /\ l \in Nat \ {0}
        /\ i \in 0 .. n /\ p \in 0 .. n /\ i <= p
    BY <1>1, <1>2, <1>5, <1>9, <2>2
  <2>4. Levels(n, h, l, i, p)
    BY <1>10, <2>1, <2>3 DEF Levels
  <2> HIDE DEF p, n
  <2>6. \A m \in 1 .. l : h[p][m] = h[i][m]
    BY <2>4, LevelKept
  <2> QED
    BY <2>6 DEF top, p
<1>16. h[i] = top
  <2>1. Len(top) = l
    BY DEF l
  <2> QED
    BY <1>4, <1>12, <1>14, <1>15, <2>1
<1>17. tokens[i].tag = tokens[j].tag
  BY <1>5, <1>14, <1>16
<1> QED
  BY <1>9, <1>13, <1>16, <1>17 DEF top

\* HTML of any length and any nesting.
LEMMA AcceptedIsBalanced ==
  ASSUME NEW tokens \in Seq(Tokens), HtmlAccepted(tokens)
  PROVE  Balanced(tokens)
<1> DEFINE n == Len(tokens)
           Even(i, j) == \A tag \in OpenTags :
                           Tags(tokens, i, j, tag, "close") = Tags(tokens, i, j, tag, "open")
<1>1. n \in Nat /\ DOMAIN tokens = 1 .. n
  OBVIOUS
<1>2. PICK h : Stacks(h, tokens)
  BY HtmlStacks
<1>3. ASSUME NEW a \in 0 .. n, NEW b \in 0 .. n, a <= b, h[a] = h[b]
      PROVE  Even(a + 1, b)
  <2> SUFFICES ASSUME NEW tag \in OpenTags
               PROVE  Tags(tokens, a + 1, b, tag, "close") = Tags(tokens, a + 1, b, tag, "open")
    OBVIOUS
  <2>1. Evened(h, tokens, a, b, tag)
    BY <1>2, <1>3, AllEvened
  <2>2. Opens(h[a], tag) \in Nat
    <3>1. h[a] \in Seq(OpenTags)
      BY <1>2 DEF Stacks
    <3> QED
      BY <3>1, OpenedOnce
  <2> DEFINE opened == Tags(tokens, a + 1, b, tag, "open")
             closed == Tags(tokens, a + 1, b, tag, "close")
             open == Opens(h[a], tag)
  <2>3. \A kind : Tags(tokens, a + 1, b, tag, kind) \in Nat
    <3> SUFFICES ASSUME NEW kind PROVE Tags(tokens, a + 1, b, tag, kind) \in Nat
      OBVIOUS
    <3>1. b + 1 \in Nat /\ a + 1 \in Nat /\ a + 1 <= b + 1 /\ (b + 1) - 1 = b
      BY <1>1, <1>3
    <3>2. Tags(tokens, a + 1, (b + 1) - 1, tag, kind) \in Nat
      BY <3>1, TagsNext
    <3> QED
      BY <3>1, <3>2
  <2>4. opened + open = closed + open
    BY <1>3, <2>1 DEF Evened
  <2>5. opened \in Nat /\ closed \in Nat /\ open \in Nat
    BY <2>2, <2>3
  <2> HIDE DEF opened, closed, open
  <2>6. opened = closed
    BY <2>4, <2>5
  <2> QED
    BY <2>6 DEF opened, closed
<1> HIDE DEF Even
<1>4. Even(1, n)
  <2>1. 0 \in 0 .. n /\ n \in 0 .. n /\ 0 <= n /\ h[0] = h[n] /\ 0 + 1 = 1
    BY <1>1, <1>2 DEF Stacks
  <2>2. Even(0 + 1, n)
    BY <1>3, <2>1
  <2> QED
    BY <2>1, <2>2
<1>5. ASSUME NEW j \in 1 .. n, tokens[j].kind = "close"
      PROVE  \E i \in 1 .. j - 1 : /\ tokens[i].tag = tokens[j].tag /\ tokens[i].kind = "open"
                                   /\ Even(i + 1, j - 1)
  <2>1. PICK i \in 1 .. j - 1 : /\ tokens[i].tag = tokens[j].tag /\ tokens[i].kind = "open"
                                /\ h[i] = h[j - 1]
    BY <1>2, <1>5, OpenedBefore
  <2>2. i \in 0 .. n /\ j - 1 \in 0 .. n /\ i <= j - 1
    BY <1>1
  <2>3. Even(i + 1, j - 1)
    BY <1>3, <2>1, <2>2
  <2> QED
    BY <2>1, <2>3
<1> QED
  BY <1>1, <1>4, <1>5 DEF Balanced, Even, OpenTags, n

-----------------------------------------------------------------------------
(* The packets of a session *)

\* What a packet keeps for as long as it is at hand, however the packets it was
\* made of have changed since.
RequestInv == made["request"] # <<>> => DraftEligible(The("request"))

DraftInv ==
  made["draft"] # <<>> => DraftEligible(The("draft")) /\ DraftArtifactAccepted(The("draft"))

ReportInv == made["report"] # <<>> => ReportAccepted(The("report"))

\* The record a smoke run leaves of its client and of its own result.
SmokeOf(s) ==
  /\ s.kind \in {"handoff", "request"}
  /\ s.result = SmokeResult(s.kind,
                  SmokeError(s.kind, s.request, s.config, s.client, s.delivery), s.delivery)
  /\ \/ s.delivery.how \in {"lost", "garbled", "unsent"} /\ s.delivery.answer = <<>>
     \/ s.delivery.how = "answer" /\ s.delivery.answer # <<>>

SmokeInv == made["smoke"] # <<>> => SmokeOf(The("smoke"))

\* The HTML of a response is what a provider sent, and goes with it into a draft.
HtmlSent == Htmls \cup {<<>>}
HtmlInv ==
  /\ made["response"] # <<>> => The("response").html \in HtmlSent
  /\ made["draft"] # <<>> => The("draft").response.html \in HtmlSent

PacketsInv ==
  /\ DOMAIN made = Packets \cup {"evidence"}
  /\ bundles \in Seq(SUBSET {"handoff", "draft"})
  /\ RequestInv /\ DraftInv /\ ReportInv /\ SmokeInv /\ HtmlInv

LEMMA NothingMadeInv ==
  ASSUME made' = NoPackets \/ \E v : made' = [NoPackets EXCEPT !["evidence"] = v],
         bundles' \in Seq(SUBSET {"handoff", "draft"})
  PROVE  PacketsInv'
BY DEF PacketsInv, NoPackets, Packets, RequestInv, DraftInv, ReportInv, SmokeInv, HtmlInv, The

\* The initial state has evidence and nothing made of it.
LEMMA InitPacketsInv == Init => PacketsInv
<1>1. ASSUME Init PROVE PacketsInv
  <2>1. PICK v : made = [NoPackets EXCEPT !["evidence"] = v]
    BY <1>1 DEF Init
  <2>2. bundles \in Seq(SUBSET {"handoff", "draft"})
    BY <1>1 DEF Init
  <2> QED
    BY <2>1, <2>2 DEF PacketsInv, NoPackets, Packets, RequestInv, DraftInv, ReportInv, SmokeInv, HtmlInv, The
<1> QED
  BY <1>1

\* A packet that is made keeps what the others keep.
LEMMA MakeStep ==
  ASSUME PacketsInv, NEW name \in Packets \ {"smoke"}, NEW value, Make(name, value),
         name = "draft" => DraftEligible(value) /\ value.response.html \in HtmlSent,
         name = "response" => value.html \in HtmlSent
  PROVE  PacketsInv'
<1>1. /\ made' = [made EXCEPT ![name] = <<value>>] /\ bundles' = bundles
      /\ Accepted(name, value)
  BY DEF Make
<1>2. made'[name] = <<value>> /\ \A n \in Packets \ {name} : made'[n] = made[n]
  BY <1>1 DEF PacketsInv
<1>3. RequestInv'
  <2>1. CASE name = "request"
    BY <2>1, <1>1, <1>2 DEF RequestInv, The, Accepted, DraftRequestAccepted
  <2>2. CASE name # "request"
    BY <2>2, <1>2 DEF PacketsInv, RequestInv, The, Packets
  <2> QED
    BY <2>1, <2>2
<1>4. DraftInv'
  <2>1. CASE name = "draft"
    BY <2>1, <1>1, <1>2 DEF DraftInv, The, Accepted
  <2>2. CASE name # "draft"
    BY <2>2, <1>2 DEF PacketsInv, DraftInv, The, Packets
  <2> QED
    BY <2>1, <2>2
<1>5. ReportInv'
  <2>1. CASE name = "report"
    BY <2>1, <1>1, <1>2 DEF ReportInv, The, Accepted
  <2>2. CASE name # "report"
    BY <2>2, <1>2 DEF PacketsInv, ReportInv, The, Packets
  <2> QED
    BY <2>1, <2>2
<1>6. SmokeInv'
  BY <1>2 DEF PacketsInv, SmokeInv, The, Packets
<1>7. HtmlInv'
  <2>1. made'["response"] # <<>> => The("response")'.html \in HtmlSent
    <3>1. CASE name = "response"
      BY <3>1, <1>2 DEF The
    <3>2. CASE name # "response"
      BY <3>2, <1>2 DEF PacketsInv, HtmlInv, The, Packets
    <3> QED
      BY <3>1, <3>2
  <2>2. made'["draft"] # <<>> => The("draft")'.response.html \in HtmlSent
    <3>1. CASE name = "draft"
      BY <3>1, <1>2 DEF The
    <3>2. CASE name # "draft"
      BY <3>2, <1>2 DEF PacketsInv, HtmlInv, The, Packets
    <3> QED
      BY <3>1, <3>2
  <2> QED
    BY <2>1, <2>2 DEF HtmlInv
<1> QED
  BY <1>1, <1>3, <1>4, <1>5, <1>6, <1>7 DEF PacketsInv

\* A draft is made for its request, so it is of the decision that request is of.
LEMMA MakeDraftStep == PacketsInv /\ MakeDraft => PacketsInv'
<1> SUFFICES ASSUME PacketsInv, MakeDraft PROVE PacketsInv'
  OBVIOUS
<1>1. DraftEligible(The("request"))
  BY DEF PacketsInv, RequestInv, MakeDraft, Has
<1>2. DraftEligible(DraftArtifact(The("request"), The("response")))
  BY <1>1 DEF DraftEligible, DraftArtifact
<1>3. DraftArtifact(The("request"), The("response")).response.html \in HtmlSent
  BY DEF PacketsInv, HtmlInv, MakeDraft, Has, DraftArtifact
<1> QED
  BY <1>2, <1>3, MakeStep DEF MakeDraft, Packets

\* A provider sends one of the HTMLs or none, whatever else is wrong.
LEMMA AnswerHtml ==
  ASSUME NEW request, NEW answer \in DraftAnswers(request)
  PROVE  SubmitDraftRequest(request, answer).html \in HtmlSent
<1> DEFINE good == [handoff |-> request.handoff, status |-> "accepted", error |-> FALSE,
                    type |-> request.original.type, claims |-> FALSE,
                    parts |-> DraftSections(request.original.type) \cup {"title", "applicable"},
                    html |-> <<>>, original |-> NotSaid]
           blocked == [request.original EXCEPT !.state = "blocked"]
           wrong == {<<"claims", TRUE>>, <<"type", "howto_qa">>, <<"parts", {}>>,
                     <<"parts", {"title", "applicable", "symptoms", "resolution"}>>,
                     <<"parts", {"title", "applicable", "question", "answer"}>>,
                     <<"parts", {"title", "symptoms", "cause", "resolution", "notes"}>>,
                     <<"original", blocked>>}
           other == {<<"handoff", r>> : r \in Refs}
           sent == {<<"html", h>> : h \in Htmls}
           tries == wrong \cup other \cup sent
<1>1. answer \in Variants(good, tries)
  BY DEF DraftAnswers
<1>2. \A try \in tries : try[1] = "html" => try[2] \in Htmls
  <2> HIDE DEF blocked
  <2>1. \A try \in wrong : try[1] # "html"
    <3>1. \A x : <<"claims", x>>[1] # "html" /\ <<"type", x>>[1] # "html"
                /\ <<"parts", x>>[1] # "html" /\ <<"original", x>>[1] # "html"
      OBVIOUS
    <3> QED
      BY <3>1, Zenon
  <2>2. \A try \in other : try[1] # "html"
    OBVIOUS
  <2>3. \A try \in sent : try[2] \in Htmls
    OBVIOUS
  <2> HIDE DEF wrong, other, sent
  <2> QED
    BY <2>1, <2>2, <2>3
<1>3. DOMAIN good = {"handoff", "status", "error", "type", "claims", "parts", "html", "original"}
      /\ good.html = <<>>
  OBVIOUS
<1> HIDE DEF good, tries
<1>4. CASE answer = <<>>
  BY <1>4 DEF SubmitDraftRequest, DraftFailed, HtmlSent
<1>5. CASE answer = <<good>>
  BY <1>3, <1>5 DEF SubmitDraftRequest, DraftFailed, HtmlSent
<1>6. CASE \E try \in tries : answer = <<[good EXCEPT ![try[1]] = try[2]]>>
  <2>1. PICK try \in tries : answer = <<[good EXCEPT ![try[1]] = try[2]]>>
    BY <1>6
  <2>2. [good EXCEPT ![try[1]] = try[2]].html \in HtmlSent
    BY <1>2, <1>3 DEF HtmlSent
  <2>3. DraftFailed(request).html \in HtmlSent
    BY DEF DraftFailed, HtmlSent
  <2> QED
    BY <2>1, <2>2, <2>3 DEF SubmitDraftRequest
<1> QED
  BY <1>1, <1>4, <1>5, <1>6 DEF Variants

Smoked(kind, c, client, delivery) ==
  [NoPackets EXCEPT !["smoke"] =
    <<[kind |-> kind, request |-> The(kind), config |-> c, client |-> client,
       delivery |-> delivery,
       result |-> SmokeResult(kind,
         SmokeError(kind, The(kind), c, client, delivery), delivery)]>>]

LEMMA SmokeStep == PacketsInv /\ Smoke => PacketsInv'
<1> SUFFICES ASSUME PacketsInv, Smoke PROVE PacketsInv'
  OBVIOUS
<1>1. PICK kind \in {"handoff", "request"}, c \in SmokeConfigs, client \in Clients :
        \E delivery \in Undelivered(client)
                          \cup Delivered("answer", SmokeAnswers(kind, The(kind))) :
          made' = Smoked(kind, c, client, delivery)
  <2>1. PICK kind \in {"handoff", "request"} :
          \E c \in SmokeConfigs, client \in Clients :
            \E delivery \in Undelivered(client)
                              \cup Delivered("answer", SmokeAnswers(kind, The(kind))) :
              made' = Smoked(kind, c, client, delivery)
    BY ZenonT(40) DEF Smoke, Smoked
  <2> QED
    BY <2>1, Zenon
<1>2. PICK delivery \in Undelivered(client)
                          \cup Delivered("answer", SmokeAnswers(kind, The(kind))) :
        made' = Smoked(kind, c, client, delivery)
  BY <1>1
<1>3. \/ delivery.how \in {"lost", "garbled", "unsent"} /\ delivery.answer = <<>>
      \/ delivery.how = "answer" /\ delivery.answer # <<>>
  BY <1>2 DEF Undelivered, Delivered, SmokeAnswers
<1>4. SmokeInv'
  BY <1>2, <1>3 DEF Smoked, SmokeInv, SmokeOf, The, NoPackets, Packets
<1>5. \A n \in Packets \ {"smoke"} : made'[n] = <<>>
  BY <1>2 DEF Smoked, NoPackets
<1>6. RequestInv' /\ DraftInv' /\ ReportInv' /\ HtmlInv'
  BY <1>5 DEF RequestInv, DraftInv, ReportInv, HtmlInv, Packets
<1>7. DOMAIN made' = Packets \cup {"evidence"} /\ bundles' = bundles
  BY <1>2 DEF Smoked, NoPackets, Smoke
<1> QED
  BY <1>4, <1>6, <1>7 DEF PacketsInv

\* New evidence leaves the packets made of the old one at hand.
LEMMA EditStep == PacketsInv /\ Edit => PacketsInv'
<1> SUFFICES ASSUME PacketsInv, Edit PROVE PacketsInv'
  OBVIOUS
<1>1. PICK e : made' = [made EXCEPT !["evidence"] = <<e>>]
  BY DEF Edit
<1>2. \A n \in Packets : made'[n] = made[n]
  BY <1>1 DEF PacketsInv, Packets
<1>3. bundles' = bundles /\ DOMAIN made' = Packets \cup {"evidence"}
  BY <1>1 DEF Edit, PacketsInv
<1> QED
  BY <1>2, <1>3 DEF PacketsInv, RequestInv, DraftInv, ReportInv, SmokeInv, HtmlInv, The, Packets

\* A new bundle is the last one, and says which optional packets it holds.
LEMMA BuildFacts ==
  ASSUME PacketsInv, Build
  PROVE  /\ made' = made
         /\ bundles' \in Seq(SUBSET {"handoff", "draft"})
         /\ {"draft"} \subseteq Last(bundles') =>
              Has(Base \cup {"handoff", "draft"}) /\ BaseConsistent /\ DraftConsistent
<1>1. PICK optional \in {{}, {"handoff"}, {"handoff", "draft"}} :
        /\ Has(Base \cup optional) /\ BaseConsistent
        /\ "draft" \in optional => DraftConsistent
        /\ bundles' = Append(bundles, optional)
  BY DEF Build
<1>2. optional \in SUBSET {"handoff", "draft"}
  OBVIOUS
<1>3. bundles' \in Seq(SUBSET {"handoff", "draft"}) /\ Last(bundles') = optional
  BY <1>1, <1>2 DEF PacketsInv, Last
<1>4. "draft" \in optional => optional = {"handoff", "draft"}
  OBVIOUS
<1> QED
  BY <1>1, <1>3, <1>4 DEF Build

LEMMA PacketsNextStep == PacketsInv /\ [Next]_vars => PacketsInv'
<1> SUFFICES ASSUME PacketsInv, [Next]_vars PROVE PacketsInv'
  OBVIOUS
<1>1. CASE Edit
  BY <1>1, EditStep
<1>2. CASE Validate \/ Decide \/ Render \/ Report \/ AskHandoff \/ AskDraft
  <2>1. PICK name \in Packets \ {"smoke", "draft", "response"} : \E value : Make(name, value)
    BY <1>2 DEF Validate, Decide, Render, Report, AskHandoff, AskDraft, Packets
  <2> QED
    BY <2>1, MakeStep
<1>8. CASE Respond
  <2>1. PICK answer \in DraftAnswers(The("request")) :
          Make("response", SubmitDraftRequest(The("request"), answer))
    BY <1>8 DEF Respond
  <2> QED
    BY <2>1, AnswerHtml, MakeStep DEF Packets
<1>3. CASE MakeDraft
  BY <1>3, MakeDraftStep
<1>4. CASE Build
  BY <1>4, BuildFacts DEF PacketsInv, RequestInv, DraftInv, ReportInv, SmokeInv, HtmlInv, The
<1>5. CASE Smoke
  BY <1>5, SmokeStep
<1>6. CASE Write
  BY <1>6, NothingMadeInv DEF Write, PacketsInv
<1>7. CASE WriteTemp \/ Rename \/ WriteFails \/ UnlinkTemp \/ UnlinkTarget \/ Failed
             \/ Crash \/ UNCHANGED vars
  <2>1. made' = made /\ bundles' = bundles
    BY <1>7 DEF WriteTemp, Rename, WriteFails, UnlinkTemp, UnlinkTarget, Failed, Crash, vars
  <2> QED
    BY <2>1 DEF PacketsInv, RequestInv, DraftInv, ReportInv, SmokeInv, HtmlInv, The
<1> QED
  BY <1>1, <1>2, <1>3, <1>4, <1>5, <1>6, <1>7, <1>8 DEF Next

\* The invariant holds in every state of every behaviour.
THEOREM SpecPacketsInv == Spec => []PacketsInv
BY InitPacketsInv, PacketsNextStep, PTL DEF Spec

-----------------------------------------------------------------------------

\* A draft exists only for a decision that writes an article and a report that
\* was ready, whatever was edited, remade or mixed up in between; it has the
\* sections of its type and no claims of its own, and its HTML, however long and
\* however deeply nested, is balanced (DraftArtifact, _DraftHtmlValidator).
THEOREM DraftIsForReadyArticle_Thm == Spec => []DraftIsForReadyArticle
<1>1. ASSUME PacketsInv, made["draft"] # <<>>
      PROVE  DraftIsForReadyArticle
  <2> DEFINE draft == The("draft")
  <2>1. DraftEligible(draft) /\ DraftArtifactAccepted(draft)
    BY <1>1 DEF PacketsInv, DraftInv
  <2>2. /\ draft.response.status = "accepted" /\ ~ draft.response.claims
        /\ SectionsFit(draft.response) /\ AcceptedShape(draft.response)
        /\ draft.response.type = draft.original.type
        /\ Agrees(draft.response.original, draft.original)
    BY <2>1 DEF DraftArtifactAccepted, DraftWellFormed, DraftMatches
  <2>3. {"title"} \cup DraftSections(draft.original.type) \subseteq draft.response.parts
    BY <2>2 DEF SectionsFit, AcceptedShape
  <2>4. Balanced(draft.response.html)
    <3>1. draft.response.html \in Seq(Tokens)
      <4>1. draft.response.html \in HtmlSent
        BY <1>1 DEF PacketsInv, HtmlInv
      <4>2. HtmlSent \subseteq Seq(Tokens)
        <5>1. <<>> \in Seq(Tokens)
          OBVIOUS
        <5>2. Htmls \subseteq Seq(Tokens)
          BY HtmlsAssumption DEF Tokens
        <5> QED
          BY <5>1, <5>2 DEF HtmlSent
      <4> QED
        BY <4>1, <4>2
    <3>2. HtmlAccepted(draft.response.html)
      BY <2>1 DEF DraftArtifactAccepted, DraftWellFormed
    <3> QED
      BY <3>1, <3>2, AcceptedIsBalanced
  <2> QED
    BY <2>1, <2>2, <2>3, <2>4 DEF DraftIsForReadyArticle, DraftEligible
<1>2. PacketsInv => DraftIsForReadyArticle
  BY <1>1 DEF DraftIsForReadyArticle
<1> QED
  BY <1>2, SpecPacketsInv, PTL

\* A bundle that carries a draft says itself that it is ready, with an article
\* to show, whatever was edited, remade or mixed up before it was built.
THEOREM BundledDraftIsReady_Thm == Spec => BundledDraftIsReady
<1>1. ASSUME PacketsInv, [Next]_vars, Built({"draft"})
      PROVE  /\ The("report").ready
             /\ The("decision").status = "decision_ready"
             /\ The("packet").action \in ArticleActions
             /\ The("draft").response.handoff = The("handoff").ref
  <2>1. Build
    BY <1>1 DEF Built, Next, Edit, Validate, Decide, Render, Report, AskHandoff, AskDraft,
                Respond, MakeDraft, Make, Smoke, Write, WriteTemp, Rename, WriteFails,
                UnlinkTemp, UnlinkTarget, Failed, Crash, vars
  <2>2. Has(Base \cup {"handoff", "draft"}) /\ BaseConsistent /\ DraftConsistent
    BY <1>1, <2>1, BuildFacts DEF Built
  <2>3. made["draft"] # <<>> /\ made["report"] # <<>>
    BY <2>2 DEF Has, Base
  <2>4. DraftEligible(The("draft")) /\ DraftArtifactAccepted(The("draft"))
    BY <1>1, <2>3 DEF PacketsInv, DraftInv
  <2>5. /\ The("draft").handoff = The("handoff").ref
        /\ The("draft").original = Original(The("decision"), The("report"))
        /\ The("packet").action = The("decision").action
    BY <2>2 DEF DraftConsistent, OriginalConsistent, BaseConsistent
  <2>6. /\ The("decision").action \in ArticleActions
        /\ The("decision").status = "decision_ready"
        /\ The("report").state = "ready_for_reviewer"
    BY <2>4, <2>5 DEF DraftEligible, Original
  <2>7. The("report").ready
    BY <1>1, <2>3, <2>6 DEF PacketsInv, ReportInv, ReportAccepted
  <2>8. The("draft").response.handoff = The("draft").handoff
    BY <2>4 DEF DraftArtifactAccepted, DraftMatches
  <2> QED
    BY <2>5, <2>6, <2>7, <2>8
<1> QED
  BY <1>1, SpecPacketsInv, PTL DEF Spec, BundledDraftIsReady

-----------------------------------------------------------------------------

\* The library answers failed exactly where the answer is not valid.
LEMMA SubmittedFacts ==
  ASSUME NEW kind \in {"handoff", "request"}, NEW request, NEW delivery
  PROVE  Submitted(kind, request, delivery) =
           IF delivery.answer # <<>> /\ AnswerValid(kind, delivery.answer[1], request)
           THEN delivery.answer[1]
           ELSE IF kind = "handoff" THEN AssistFailed(request) ELSE DraftFailed(request)
BY DEF Submitted, AnswerValid, SubmitHandoff, SubmitDraftRequest

LEMMA FailedIsNotAccepted ==
  ASSUME NEW request
  PROVE  AssistFailed(request).status # "accepted" /\ DraftFailed(request).status # "accepted"
BY DEF AssistFailed, DraftFailed

\* A valid answer that is accepted reports no error.
LEMMA ValidAnswers ==
  ASSUME NEW kind, NEW answer, NEW request, AnswerValid(kind, answer, request)
  PROVE  answer.error <=> answer.status # "accepted"
BY DEF AnswerValid, AssistValid, DraftWellFormed

\* What a smoke run reports of an answer is what the library would make of it.
LEMMA SmokeAgrees ==
  ASSUME NEW s, SmokeOf(s)
  PROVE  LET reached == s.client = s.config.mode /\ ReadyForProviderCall(s.config)
         IN /\ s.result.valid <=>
                 reached /\ Submitted(s.kind, s.request, s.delivery).status = "accepted"
            /\ s.result.valid =>
                 s.result.response[1] = Submitted(s.kind, s.request, s.delivery)
            /\ ~ SmokeResultInvalid(s.result)
            /\ \A runtime \in BOOLEAN :
                 ReadyForLiveSmoke(s.config, runtime) /\ s.client = s.config.mode =>
                   s.result.called
<1> DEFINE error == SmokeError(s.kind, s.request, s.config, s.client, s.delivery)
           reached == s.client = s.config.mode /\ ReadyForProviderCall(s.config)
           accepted == s.delivery.how = "answer" /\
                       AnswerAccepted(s.kind, s.delivery.answer[1], s.request)
<1>1. /\ s.result.valid = (error = "none")
      /\ s.result.called = (error # "transport_not_supported")
      /\ s.result.error = error
      /\ s.result.response = IF error = "none" THEN s.delivery.answer ELSE <<>>
      /\ s.result.status = IF error = "none" THEN "accepted" ELSE "failed"
  BY DEF SmokeOf, SmokeResult
<1>2. s.kind \in {"handoff", "request"} /\ s.delivery.how \in {"lost", "garbled", "unsent", "answer"}
  BY DEF SmokeOf
<1>3. /\ error = "none" <=> reached /\ accepted
      /\ error = "transport_not_supported" <=> ~ reached
  BY <1>2 DEF SmokeError
<1>4. Submitted(s.kind, s.request, s.delivery).status = "accepted" <=> accepted
  <2>1. CASE s.delivery.how = "answer"
    <3>1. s.delivery.answer # <<>>
      BY <2>1 DEF SmokeOf
    <3> QED
      BY <1>2, <2>1, <3>1, SubmittedFacts, FailedIsNotAccepted, ValidAnswers
         DEF AnswerAccepted
  <2>2. CASE s.delivery.how # "answer"
    <3>1. s.delivery.answer = <<>>
      BY <2>2 DEF SmokeOf
    <3> QED
      BY <1>2, <2>2, <3>1, SubmittedFacts, FailedIsNotAccepted
  <2> QED
    BY <2>1, <2>2
<1>5. accepted => /\ s.delivery.answer # <<>>
                  /\ s.delivery.answer[1] = Submitted(s.kind, s.request, s.delivery)
                  /\ ~ s.delivery.answer[1].error /\ s.delivery.answer[1].status = "accepted"
  BY <1>2, SubmittedFacts DEF SmokeOf, AnswerAccepted
<1>6. s.result.valid <=> reached /\ Submitted(s.kind, s.request, s.delivery).status = "accepted"
  BY <1>1, <1>3, <1>4
<1>7. s.result.valid => s.result.response[1] = Submitted(s.kind, s.request, s.delivery)
  BY <1>1, <1>3, <1>5
<1>8. ~ SmokeResultInvalid(s.result)
  <2>1. CASE error = "none"
    BY <1>1, <1>3, <1>5, <2>1 DEF SmokeResultInvalid
  <2>2. CASE error # "none"
    BY <1>1, <2>2 DEF SmokeResultInvalid
  <2> QED
    BY <2>1, <2>2
<1>9. ASSUME NEW runtime \in BOOLEAN, ReadyForLiveSmoke(s.config, runtime),
             s.client = s.config.mode
      PROVE  s.result.called
  <2>1. TransportSupported(s.config, runtime)
    BY <1>9 DEF ReadyForLiveSmoke, PreflightFailedChecks
  <2>2. reached
    BY <1>9, <2>1 DEF TransportSupported, ReadyForProviderCall
  <2> QED
    BY <1>1, <1>3, <2>2
<1> QED
  BY <1>6, <1>7, <1>8, <1>9

\* A smoke run calls an answer valid exactly when the library, asking the same
\* client, would accept it, for every config, client and answer.
THEOREM SmokeAgreesWithSubmit_Thm == Spec => []SmokeAgreesWithSubmit
<1>1. ASSUME PacketsInv PROVE SmokeAgreesWithSubmit
  BY <1>1, SmokeAgrees DEF PacketsInv, SmokeInv, SmokeAgreesWithSubmit
<1> QED
  BY <1>1, SpecPacketsInv, PTL
=============================================================================
