------------------------------- MODULE Vdigest -------------------------------
(***************************************************************************)
(* The two front ends of the package side by side: digest() of R/digest.R  *)
(* for one object, and the functions getVDigest() returns, of R/vdigest.R, *)
(* for all the elements of one, which the loop of vdigest() in digest.c    *)
(* hashes. A digest names what was hashed.                                 *)
(***************************************************************************)
EXTENDS Integers, Sequences, FiniteSets

CONSTANTS
    Objects,        \* the objects: records [type, elts], elts the elements
    Skips,          \* the skip arguments: AUTO, other text, numbers
    AUTO, Prefix,   \* skip = "auto"; skip = "a", which pmatch takes for it
    Text,           \* any other text
    HeaderLength,   \* set_skip's bytes of a binary header (14)
    AsciiHeader,    \* where the fourth line of an ASCII serialization ends
    Window,         \* how many elements set_skip looks at (30)
    Tens,           \* the elements that are equal to a line feed, as.raw(10)
    ErrorModes      \* "stop", "warn", "silent"

\* The objects are records and their elements are sequences.
ConstantsFit ==
    /\ ErrorModes \subseteq {"stop", "warn", "silent"}
    /\ Window \in Nat
    /\ \A o \in Objects :
        /\ o = [type |-> o.type, elts |-> o.elts]
        /\ Len(o.elts) \in Nat /\ o.elts = [i \in 1 .. Len(o.elts) |-> o.elts[i]]

VARIABLES
    arg,        \* the arguments, the object among them
    exists,     \* the files of the object that exist
    pc,         \* where the call is
    call,       \* what it hands to C: the object to hash and the skip
    ans,        \* the character vector of the loop over the elements
    outcome     \* of the call
vars == <<arg, exists, pc, call, ans, outcome>>

Running == <<"running">>
Stop(why) == <<"stop", why>>
Value(v) == <<"value", v>>

\* .errorhandler: stop, or a value for the call to return.
errorhandler(mode, why) ==
    CASE mode = "stop" -> Stop(why)
      [] mode = "warn" -> <<"handler", "NA">>
      [] mode = "silent" -> <<"handler", "NULL">>

-----------------------------------------------------------------------------
(* What is hashed *)

\* serialize(object, ascii)
Serialization(object, ascii) ==
    [type |-> "raw", elts |-> <<<<"serialization", object, ascii>>>>]

\* set_skip, of one serialization.
set_skip(ascii) == IF ascii THEN AsciiHeader ELSE HeaderLength

\* `if (is.character(skip)) skip <- 0'
Number(skip) == IF skip \in {AUTO, Prefix, Text} THEN 0 ELSE skip

\* digest() of digest.c: a raw vector whole, or the first of some strings. Of
\* no string asChar makes NA, and its two letters are hashed. Nothing is
\* skipped unless skip > 0.
digest_impl(object, skip) ==
    LET bytes == IF object.type = "raw" THEN object.elts
                 ELSE IF object.elts = <<>> THEN "NA" ELSE object.elts[1]
    IN  <<bytes, IF skip > 0 THEN skip ELSE 0>>

\* The same for the file that object names, if it can be opened.
digest_file(object, skip) == <<"file", object.elts[1], IF skip > 0 THEN skip ELSE 0>>

\* spookydigest_impl serializes the object itself, in binary form.
spookydigest_impl(object, skip) == <<"spooky", object, skip>>

\* x[[i]]: of a list its element, of an atomic vector a vector of one.
Element(object, i) ==
    IF object.type = "list" THEN object.elts[i]
    ELSE [object EXCEPT !.elts = <<object.elts[i]>>]

\* object[1:Window] == as.raw(10): a list is made raw for it, an error if it is
\* padded with NULL or an element is longer than one.
Comparable(object) ==
    object.type = "list" =>
        Window <= Len(object.elts) /\ \A i \in 1 .. Window : Len(object.elts[i].elts) <= 1

\* which(...)[4]: the place of the fourth line feed, or NA, which C reads as 0.
FourthTen(object) ==
    LET found == {i \in 1 .. Len(object.elts) :
                    i <= Window /\ \E t \in Tens : Element(object, i).elts = <<t>>}
    IN  IF Cardinality(found) < 4 THEN 0
        ELSE CHOOSE i \in found : Cardinality({j \in found : j <= i}) = 4

\* set_skip of an object that is not serialized.
NotSerialized(object, ascii) == IF ascii THEN FourthTen(object) ELSE HeaderLength

-----------------------------------------------------------------------------
(* digest() *)

Hashable(object) == object.type \in {"character", "raw"}

digest(object, a, files) ==
    LET auto == a.skip = AUTO
        mode == a.errormode
    IN  IF a.spooky
        THEN IF ~a.serialize \/ (a.file /\ object.type = "character")
             THEN errorhandler(mode, "spookyhash")
             ELSE IF a.file THEN errorhandler(mode, "type")
             ELSE IF auto /\ a.ascii /\ ~Comparable(object) THEN Stop("comparison")
             ELSE Value(spookydigest_impl(object, IF auto THEN NotSerialized(object, a.ascii)
                                                  ELSE Number(a.skip)))
        ELSE IF a.serialize /\ ~a.file
        THEN Value(digest_impl(Serialization(object, a.ascii),
                               IF auto THEN set_skip(a.ascii) ELSE Number(a.skip)))
        ELSE IF ~Hashable(object) \/ (a.file /\ object.type # "character")
        THEN errorhandler(mode, "type")
        ELSE IF ~a.file THEN Value(digest_impl(object, Number(a.skip)))
        ELSE IF object.elts[1] \in files THEN Value(digest_file(object, Number(a.skip)))
        ELSE Stop("file")   \* check_file's, or else digest.c's, which nothing catches

-----------------------------------------------------------------------------
(* The functions of getVDigest() *)

\* serialize_: each element, or an empty object as a whole.
serialize_Whole(object, ascii) == Serialization(object, ascii)
serialize_(object, ascii) ==
    IF object.elts = <<>> THEN Serialization(object, ascii)
    ELSE [type |-> "list",
          elts |-> [i \in 1 .. Len(object.elts) |-> Serialization(Element(object, i), ascii)]]

\* any(!is.na(pmatch(skip, "auto")))
AutoSkip(skip) == skip \in {AUTO, Prefix}

\* The end of the call, and the call of C.
Finish(result) ==
    pc' = "done" /\ outcome' = result /\ UNCHANGED <<arg, exists, call, ans>>

ToLoop(object, skip) ==
    /\ pc' = "loop" /\ call' = [object |-> object, skip |-> skip] /\ ans' = <<>>
    /\ UNCHANGED <<arg, exists, outcome>>

\* non_streaming_digest, serialize = TRUE. With ascii, set_skip compares the
\* list of the serializations with a line feed, which is an error.
Serialized ==
    /\ pc = "start" /\ ~arg.spooky /\ arg.serialize /\ ~arg.file
    /\ LET object == serialize_(arg.object, arg.ascii)
       IN  IF AutoSkip(arg.skip) /\ arg.ascii /\ object.type = "list"
           THEN Finish(Stop("comparison"))
           ELSE ToLoop(object, IF AutoSkip(arg.skip) THEN set_skip(arg.ascii)
                               ELSE Number(arg.skip))

\* The same, for strings and raw vectors as they are, and for files: one name
\* that exists, for `if' takes one condition.
AsIs ==
    /\ pc = "start" /\ ~arg.spooky /\ (~arg.serialize \/ arg.file)
    /\ LET object == arg.object
       IN  IF ~Hashable(object) \/ (arg.file /\ object.type # "character")
           THEN Finish(errorhandler(arg.errormode, "type"))
           ELSE IF arg.file /\ Len(object.elts) # 1 THEN Finish(Stop("condition"))
           ELSE IF arg.file /\ object.elts[1] \notin exists /\ arg.errormode = "stop"
           THEN Finish(Stop("file"))
           ELSE ToLoop(object, Number(arg.skip))

\* streaming_digest. The handler's value for serialize = FALSE is dropped. The
\* skip is looked for in the object as a whole.
Streamed ==
    /\ pc = "start" /\ arg.spooky
    /\ LET auto == arg.serialize /\ AutoSkip(arg.skip)
       IN  IF ~arg.serialize /\ arg.errormode = "stop" THEN Finish(Stop("spookyhash"))
           ELSE IF arg.file THEN Finish(errorhandler(arg.errormode, "spookyhash"))
           ELSE IF auto /\ arg.ascii /\ ~Comparable(arg.object) THEN Finish(Stop("comparison"))
           ELSE ToLoop(arg.object, IF auto THEN NotSerialized(arg.object, arg.ascii)
                                   ELSE Number(arg.skip))

\* vdigest() of digest.c hashes a raw vector, or an empty one, as a whole.
AtOnce(object) == object.type = "raw" \/ object.elts = <<>>

Whole ==
    /\ pc = "loop" /\ ~arg.spooky /\ AtOnce(call.object)
    /\ Finish(Value(<<digest_impl(call.object, call.skip)>>))

\* One element, or an error, which leaves the loop and its vector.
Hashed(x) ==
    IF arg.spooky THEN spookydigest_impl(x, call.skip)
    ELSE IF arg.file THEN digest_file(x, call.skip)
    ELSE digest_impl(x, call.skip)

InLoop == pc = "loop" /\ (arg.spooky \/ ~AtOnce(call.object))

Step ==
    /\ InLoop /\ Len(ans) < Len(call.object.elts)
    /\ LET x == Element(call.object, Len(ans) + 1)
       IN  IF arg.file /\ x.elts[1] \notin exists THEN Finish(Stop("file"))
           ELSE /\ ans' = Append(ans, Hashed(x))
                /\ UNCHANGED <<arg, exists, pc, call, outcome>>

Return ==
    /\ InLoop /\ Len(ans) = Len(call.object.elts)
    /\ Finish(Value(ans))

\* Another process removes a file.
Remove ==
    /\ pc # "done" /\ arg.file
    /\ \E f \in exists : exists' = exists \ {f}
    /\ UNCHANGED <<arg, pc, call, ans, outcome>>

Args == [object : Objects, skip : Skips, serialize : BOOLEAN, file : BOOLEAN,
         ascii : BOOLEAN, spooky : BOOLEAN, errormode : ErrorModes]

Names(object) == IF object.type = "character" THEN {object.elts[i] : i \in 1 .. Len(object.elts)} ELSE {}

Init ==
    /\ arg \in Args
    /\ exists \in SUBSET Names(arg.object)
    /\ pc = "start" /\ call = [object |-> arg.object, skip |-> 0] /\ ans = <<>>
    /\ outcome = Running

\* The function is called again.
Again ==
    /\ pc = "done"
    /\ pc' = "start" /\ call' = [object |-> arg.object, skip |-> 0] /\ ans' = <<>>
    /\ outcome' = Running
    /\ UNCHANGED <<arg, exists>>

Next == Serialized \/ AsIs \/ Streamed \/ Whole \/ Step \/ Return \/ Remove \/ Again

Spec == Init /\ [][Next]_vars

-----------------------------------------------------------------------------
(* Properties *)

\* spookyhash, skip = "auto" and ascii = TRUE: the fourth line feed of the vector
\* has another place than that of some element, or digest() fails to look for it.
Misplaced(a) ==
    /\ a.spooky /\ a.skip = AUTO /\ a.ascii
    /\ \E i \in 1 .. Len(a.object.elts) :
         LET x == Element(a.object, i)
         IN  ~Comparable(x) \/ FourthTen(x) # FourthTen(a.object)

\* The calls for which the vector is promised to be digest()'s, element by
\* element. Not: an empty object, of which there is one digest; raw vectors as
\* they are, likewise; "a" for "auto", which digest() takes for 0; spookyhash
\* without serialization, which digest() refuses, and where its skip is that of
\* the vector.
Vectorised(a) ==
    /\ a.spooky => a.serialize
    /\ ~a.spooky => /\ a.object.elts # <<>>
                    /\ ~(a.object.type = "raw" /\ ~a.serialize)
    /\ a.skip # Prefix
    /\ ~Misplaced(a)

\* A call that returns a vector has hashed each element as digest() hashes it
\* with the same arguments, in the same order, none left out, although it
\* serializes and skips for all of them at once; also where files disappear.
Elementwise ==
    (outcome[1] = "value" /\ Vectorised(arg)) =>
        LET v == outcome[2]
        IN  /\ Len(v) = Len(arg.object.elts)
            /\ \A i \in 1 .. Len(v) :
                 digest(Element(arg.object, i), arg, Names(arg.object)) = Value(v[i])
=============================================================================
