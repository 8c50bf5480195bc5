-------------------------- MODULE JavaPluginProofs --------------------------
(***************************************************************************)
(* Proofs about JavaPlugin, for any .proto file: whatever its package and  *)
(* its services are called, the plugin puts every class where javac looks  *)
(* for it, or two of its services clash.                                   *)
(***************************************************************************)
EXTENDS JavaPlugin, SequenceTheorems, TLAPS

(* Part is what names are made of, what the plugin adds to them included.  *)
(* protoc refuses two services of one name in a file.                      *)
FilesOver(Part) ==
  /\ {".", "/", ".java", "Outer", "Client", "Server"} \subseteq Part
  /\ Packages \subseteq Seq(Part)
  /\ ServiceLists \subseteq Seq(Seq(Part))
  /\ \A list \in ServiceLists : \A a, b \in DOMAIN list :
       list[a] = list[b] => a = b

(* The kth class of a service and where javac looks for it.                *)
Class(s, k) == IF k = 1 THEN s
               ELSE IF k = 2 THEN s \o <<"Client">> ELSE s \o <<"Server">>

Path(package, s, k) == JavaPackageToDir(package) \o Class(s, k) \o <<".java">>

IsFileOf(f, package, s, k) ==
  /\ f.path = Path(package, s, k)
  /\ f.text.package = package
  /\ f.text.class = Class(s, k)
  /\ f.text.interface = s

FileOver(Part) ==
  [path : Seq(Part),
   text : [package : Seq(Part), class : Seq(Part), interface : Seq(Part),
           version : BOOLEAN]]

(* The package is that of the file.                                        *)
InPackage == \E package \in Packages : outerClass = ClassName(package)

(* The files opened so far are those of the services before at, and kind-1 *)
(* of at itself, three for each, in order.                                 *)
OpenedSoFar ==
  /\ Len(opened) = 3 * (at - 1) + (kind - 1)
  /\ \A j \in DOMAIN opened : \E a \in DOMAIN services, k \in 1 .. 3 :
       /\ j = 3 * (a - 1) + k
       /\ IsFileOf(opened[j], ServiceJavaPackage, services[a], k)

Outcomes ==
  /\ outcome = "written" => at > Len(services)
  /\ outcome = "rejected" => ~Accepts

Shape(Part) ==
  /\ services \in ServiceLists
  /\ at \in 1 .. Len(services) + 1 /\ kind \in 1 .. 3
  /\ at > Len(services) => kind = 1
  /\ disable_version \in BOOLEAN
  /\ opened \in Seq(FileOver(Part))

Inv(Part) == InPackage /\ Shape(Part) /\ OpenedSoFar /\ Outcomes

(* A list of services has a length.                                        *)
LEMMA ListLength ==
  ASSUME NEW Part, FilesOver(Part), NEW list \in ServiceLists
  PROVE  /\ Len(list) \in Nat /\ DOMAIN list = 1 .. Len(list)
         /\ \A a \in 1 .. Len(list) : list[a] \in Seq(Part)
<1>1. list \in Seq(Seq(Part))
  BY DEF FilesOver
<1>2. QED
  BY <1>1, LenProperties

(* The class of the file is in the file's package: what is cut off behind  *)
(* the last dot is the class.                                              *)
LEMMA PackageOfClass ==
  ASSUME NEW Part, FilesOver(Part),
         NEW package \in Packages, outerClass = ClassName(package)
  PROVE  ServiceJavaPackage = package
<1>1. package \in Seq(Part) /\ Len(package) \in Nat
  BY LenProperties DEF FilesOver
<1>2. <<".">> \in Seq(Part) /\ <<"Outer">> \in Seq(Part)
  BY DEF FilesOver
<1>3. CASE package = <<>>
  <2>1. outerClass = <<"Outer">>
    BY <1>2, <1>3, ConcatEmptySeq DEF ClassName
  <2>2. Dots(outerClass) = {}
    BY <2>1 DEF Dots
  <2>3. QED
    BY <1>3, <2>2 DEF ServiceJavaPackage
<1>4. CASE package # <<>>
  <2> DEFINE n == Len(package)
             qualified == package \o <<".">>
  <2>1. /\ qualified \in Seq(Part) /\ Len(qualified) = n + 1
        /\ \A k \in 1 .. n : qualified[k] = package[k]
        /\ qualified[n + 1] = "."
    BY <1>1, <1>2
  <2>2. outerClass = qualified \o <<"Outer">>
    BY <1>4 DEF ClassName
  <2> HIDE DEF qualified
  <2>3. /\ outerClass \in Seq(Part) /\ Len(outerClass) = n + 2
        /\ \A k \in 1 .. n + 1 : outerClass[k] = qualified[k]
        /\ outerClass[n + 2] = "Outer"
    BY <1>1, <1>2, <2>1, <2>2
  <2>4. n + 1 \in Dots(outerClass)
    BY <1>1, <2>1, <2>3 DEF Dots
  <2>5. \A j \in Dots(outerClass) : j <= n + 1
    BY <1>1, <2>3 DEF Dots
  <2>6. (CHOOSE k \in Dots(outerClass) : \A j \in Dots(outerClass) : j <= k)
          = n + 1
    <3>1. \A k \in Dots(outerClass) : k \in Nat
      BY <2>3 DEF Dots
    <3>2. \A k \in Dots(outerClass) :
            (\A j \in Dots(outerClass) : j <= k) => k = n + 1
      BY <1>1, <2>4, <2>5, <3>1
    <3>3. QED
      BY <2>4, <2>5, <3>2
  <2>7. ServiceJavaPackage = SubSeq(outerClass, 1, n)
    <3>1. Dots(outerClass) # {}
      BY <2>4
    <3>2. ServiceJavaPackage = SubSeq(outerClass, 1, (n + 1) - 1)
      BY <2>6, <3>1 DEF ServiceJavaPackage
    <3>3. QED
      BY <1>1, <3>2
  <2>8. SubSeq(outerClass, 1, n) = package
    <3>1. \A k \in 1 .. n : outerClass[k] \in Part /\ outerClass[k] = package[k]
      BY <1>1, <2>1, <2>3
    <3>2. /\ SubSeq(outerClass, 1, n) \in Seq(Part)
          /\ Len(SubSeq(outerClass, 1, n)) = n
          /\ \A k \in 1 .. n : SubSeq(outerClass, 1, n)[k] = outerClass[k]
      BY <1>1, <3>1, SubSeqProperties
    <3> HIDE DEF n
    <3>3. QED
      BY <1>1, <3>1, <3>2, SeqEqual DEF n
  <2>9. QED
    BY <2>7, <2>8
<1>5. QED
  BY <1>3, <1>4

(* A class's name is a name.                                               *)
LEMMA ClassIsName ==
  ASSUME NEW Part, FilesOver(Part), NEW s \in Seq(Part), NEW k \in 1 .. 3
  PROVE  Class(s, k) \in Seq(Part)
<1>1. <<"Client">> \in Seq(Part) /\ <<"Server">> \in Seq(Part)
  BY DEF FilesOver
<1>2. QED
  BY <1>1, ConcatProperties DEF Class

(* Three files for each service: a file's number tells whose it is.        *)
LEMMA WhoseFile ==
  ASSUME NEW a \in Nat, NEW k \in 1 .. 3, NEW b \in Nat, NEW m \in 1 .. 3,
         3 * (a - 1) + k = 3 * (b - 1) + m
  PROVE  a = b /\ k = m
<1>1. 3 * a - 3 * b = m - k /\ m - k \in -2 .. 2
  OBVIOUS
<1>2. a = b
  BY <1>1
<1>3. QED
  BY <1>2

(* The directory of a package, with the slash that ends it.                *)
LEMMA DirectoryIsName ==
  ASSUME NEW Part, FilesOver(Part), NEW package \in Seq(Part)
  PROVE  JavaPackageToDir(package) \in Seq(Part)
<1> DEFINE dirs == [k \in DOMAIN package |->
                      IF package[k] = "." THEN "/" ELSE package[k]]
<1>1. "/" \in Part /\ <<"/">> \in Seq(Part)
  BY DEF FilesOver
<1>2. dirs \in Seq(Part)
  BY <1>1
<1> HIDE DEF dirs
<1>3. dirs \o <<>> \in Seq(Part) /\ dirs \o <<"/">> \in Seq(Part)
  BY <1>1, <1>2, ConcatEmptySeq, ConcatProperties
<1>4. QED
  BY <1>3 DEF JavaPackageToDir, dirs

(* The plugin's path is javac's.                                           *)
LEMMA PathIsLocation ==
  ASSUME NEW Part, FilesOver(Part), NEW package \in Seq(Part), NEW s, NEW k
  PROVE  Path(package, s, k) = Location(package, Class(s, k))
<1> DEFINE separated == IF package = <<>> THEN <<>> ELSE package \o <<".">>
           dirs == [j \in DOMAIN package |->
                      IF package[j] = "." THEN "/" ELSE package[j]]
           sought == [j \in DOMAIN separated |->
                        IF separated[j] = "." THEN "/" ELSE separated[j]]
           n == Len(package)
<1>1. /\ "/" \in Part /\ <<"/">> \in Seq(Part)
      /\ "." \in Part /\ <<".">> \in Seq(Part)
  BY DEF FilesOver
<1>2. dirs \in Seq(Part) /\ Len(dirs) = n /\ n \in Nat
      /\ \A j \in 1 .. n : dirs[j] = IF package[j] = "." THEN "/" ELSE package[j]
  BY <1>1
<1>3. JavaPackageToDir(package) = sought
  <2>1. CASE package = <<>>
    <3>1. separated = <<>> /\ dirs = <<>> /\ sought = <<>>
      BY <2>1, <1>2
    <3>2. QED
      BY <2>1, <3>1 DEF JavaPackageToDir
  <2>2. CASE package # <<>>
    <3>1. /\ separated \in Seq(Part) /\ Len(separated) = n + 1
          /\ \A j \in 1 .. n : separated[j] = package[j]
          /\ separated[n + 1] = "."
      BY <1>1, <2>2
    <3>2. sought \in Seq(Part) /\ Len(sought) = n + 1
          /\ \A j \in 1 .. n + 1 :
               sought[j] = IF separated[j] = "." THEN "/" ELSE separated[j]
      <4> HIDE DEF separated
      <4>1. QED
        BY <1>1, <1>2, <3>1
    <3>3. JavaPackageToDir(package) = dirs \o <<"/">>
      BY <2>2 DEF JavaPackageToDir
    <3> HIDE DEF dirs, sought, separated
    <3>4. /\ dirs \o <<"/">> \in Seq(Part) /\ Len(dirs \o <<"/">>) = n + 1
          /\ \A j \in 1 .. n : (dirs \o <<"/">>)[j] = dirs[j]
          /\ (dirs \o <<"/">>)[n + 1] = "/"
      BY <1>1, <1>2
    <3>5. \A j \in 1 .. n + 1 : (dirs \o <<"/">>)[j] = sought[j]
      BY <1>2, <3>1, <3>2, <3>4
    <3> HIDE DEF n
    <3>6. QED
      BY <3>2, <3>3, <3>4, <3>5, SeqEqual
  <2>3. QED
    BY <2>1, <2>2
<1>4. Location(package, Class(s, k)) = sought \o Class(s, k) \o <<".java">>
  BY DEF Location
<1>5. QED
  BY <1>3, <1>4 DEF Path

(* Two classes have one path only if they have one name.                   *)
LEMMA PathsTellClasses ==
  ASSUME NEW Part, FilesOver(Part), NEW package \in Seq(Part),
         NEW s \in Seq(Part), NEW k \in 1 .. 3,
         NEW t \in Seq(Part), NEW m \in 1 .. 3,
         Path(package, s, k) = Path(package, t, m)
  PROVE  Class(s, k) = Class(t, m)
<1> DEFINE dir == JavaPackageToDir(package)
           c == Class(s, k)
           d == Class(t, m)
<1>1. dir \in Seq(Part) /\ c \in Seq(Part) /\ d \in Seq(Part)
      /\ <<".java">> \in Seq(Part)
  BY ClassIsName, DirectoryIsName DEF FilesOver
<1>2. (dir \o c) \o <<".java">> = (dir \o d) \o <<".java">>
  BY DEF Path
<1> HIDE DEF dir, c, d
<1>3. dir \o c \in Seq(Part) /\ dir \o d \in Seq(Part)
  BY <1>1, ConcatProperties
<1>4. dir \o c = dir \o d
  BY <1>1, <1>2, <1>3, ConcatSimplifications
<1>5. c = d
  BY <1>1, <1>4, ConcatSimplifications
<1>6. QED
  BY <1>5 DEF c, d

(* Two classes of one name are one class, or one of the services is called *)
(* like the other's client or server.                                      *)
LEMMA SameNameClash ==
  ASSUME NEW Part, FilesOver(Part),
         NEW s \in Seq(Part), NEW k \in 1 .. 3,
         NEW t \in Seq(Part), NEW m \in 1 .. 3,
         Class(s, k) = Class(t, m)
  PROVE  \/ s = t /\ k = m
         \/ s \in {t \o <<"Client">>, t \o <<"Server">>}
         \/ t \in {s \o <<"Client">>, s \o <<"Server">>}
<1>1. <<"Client">> \in Seq(Part) /\ <<"Server">> \in Seq(Part)
  BY DEF FilesOver
<1>2. k = 1 \/ k = 2 \/ k = 3
  OBVIOUS
<1>3. m = 1 \/ m = 2 \/ m = 3
  OBVIOUS
<1>4. CASE k = m
  <2>1. CASE k = 1
    BY <1>4, <2>1 DEF Class
  <2>2. CASE k = 2
    <3>1. s \o <<"Client">> = t \o <<"Client">>
      BY <1>4, <2>2 DEF Class
    <3>2. QED
      BY <1>1, <1>4, <3>1, ConcatSimplifications
  <2>3. CASE k = 3
    <3>1. s \o <<"Server">> = t \o <<"Server">>
      BY <1>4, <2>3 DEF Class
    <3>2. QED
      BY <1>1, <1>4, <3>1, ConcatSimplifications
  <2>4. QED
    BY <1>2, <2>1, <2>2, <2>3
<1>5. CASE k # m /\ k = 1
  BY <1>3, <1>5 DEF Class
<1>6. CASE k # m /\ m = 1
  BY <1>2, <1>6 DEF Class
<1>7. CASE k # m /\ k # 1 /\ m # 1
  <2>1. \A u, v \in Seq(Part) : u \o <<"Client">> # v \o <<"Server">>
    <3> SUFFICES ASSUME NEW u \in Seq(Part), NEW v \in Seq(Part),
                        u \o <<"Client">> = v \o <<"Server">>
                 PROVE  FALSE
      OBVIOUS
    <3>1. (u \o <<"Client">>)[Len(u \o <<"Client">>)] = "Client"
      BY <1>1
    <3>2. (v \o <<"Server">>)[Len(v \o <<"Server">>)] = "Server"
      BY <1>1
    <3>3. QED
      BY <3>1, <3>2
  <2>2. QED
    BY <1>2, <1>3, <1>7, <2>1 DEF Class
<1>8. QED
  BY <1>4, <1>5, <1>6, <1>7

(* What GenerateFile opens and prints.                                     *)
LEMMA FileGenerated ==
  ASSUME NEW Part, FilesOver(Part), Inv(Part), GenerateFile
  PROVE  \E f \in FileOver(Part) :
           /\ opened' = Append(opened, f)
           /\ IsFileOf(f, ServiceJavaPackage, services[at], kind)
<1> DEFINE s == services[at]
           class == CASE Kinds[kind] = "interface" -> s
                      [] Kinds[kind] = "client"    -> ClientClassName(s)
                      [] Kinds[kind] = "server"    -> ServerClassName(s)
           f == [path |-> JavaPackageToDir(ServiceJavaPackage)
                            \o FileName(s) \o <<".java">>,
                 text |-> Printed(s)]
<1>1. opened' = Append(opened, f)
  BY DEF GenerateFile
<1>2. PICK package \in Packages : outerClass = ClassName(package)
  BY DEF Inv, InPackage
<1>3. ServiceJavaPackage = package /\ package \in Seq(Part)
  BY <1>2, PackageOfClass DEF FilesOver
<1>4. s \in Seq(Part) /\ kind \in 1 .. 3 /\ disable_version \in BOOLEAN
  <2>1. services \in ServiceLists /\ at \in 1 .. Len(services) + 1
        /\ at <= Len(services)
    BY DEF Inv, Shape, GenerateFile
  <2>2. QED
    BY <2>1, ListLength DEF Inv, Shape
<1> HIDE DEF s
<1>5. kind = 1 \/ kind = 2 \/ kind = 3
  BY <1>4
<1>6. /\ kind = 1 => Kinds[kind] = "interface"
      /\ kind = 2 => Kinds[kind] = "client"
      /\ kind = 3 => Kinds[kind] = "server"
  BY DEF Kinds
<1>7. FileName(s) = Class(s, kind)
  BY <1>5, <1>6 DEF FileName, Class, ClientClassName, ServerClassName
<1>8. Printed(s) = [package |-> ServiceJavaPackage, class |-> Class(s, kind),
                    interface |-> s, version |-> ~disable_version]
  BY <1>5, <1>6 DEF Printed, GenerateInterface, GenerateClient, GenerateServer,
                    Generated, Class, ClientClassName, ServerClassName
<1>9. Class(s, kind) \in Seq(Part) /\ f.path \in Seq(Part)
  <2>1. Class(s, kind) \in Seq(Part) /\ JavaPackageToDir(package) \in Seq(Part)
        /\ <<".java">> \in Seq(Part)
    BY <1>3, <1>4, ClassIsName, DirectoryIsName DEF FilesOver
  <2>2. QED
    BY <1>3, <1>7, <2>1, ConcatProperties
<1>10. f.path = Path(ServiceJavaPackage, s, kind)
  BY <1>7 DEF Path
<1>11. f \in FileOver(Part)
  <2>1. (~disable_version) \in BOOLEAN
    OBVIOUS
  <2>2. Printed(s) \in [package : Seq(Part), class : Seq(Part),
                        interface : Seq(Part), version : BOOLEAN]
    BY <1>3, <1>4, <1>8, <1>9, <2>1
  <2>3. QED
    BY <1>9, <2>2 DEF FileOver
<1>12. IsFileOf(f, ServiceJavaPackage, s, kind)
  <2>1. f.text = Printed(s)
    OBVIOUS
  <2>2. QED
    BY <1>8, <1>10, <2>1 DEF IsFileOf
<1>13. QED
  BY <1>1, <1>11, <1>12 DEF s

(* Nothing is open at first.                                               *)
LEMMA InitInv ==
  ASSUME NEW Part, FilesOver(Part), Init PROVE Inv(Part)
<1>1. PICK package \in Packages, list \in ServiceLists, options \in Parameters :
        Start(package, list, options)
  BY DEF Init
<1>2. services = list /\ Len(services) \in Nat
  BY <1>1, ListLength DEF Start
<1>3. InPackage /\ Outcomes
  BY <1>1 DEF Start, InPackage, Outcomes
<1>4. Shape(Part)
  <2>1. opened = <<>> /\ at = 1 /\ kind = 1 /\ disable_version = FALSE
    BY <1>1 DEF Start
  <2>2. opened \in Seq(FileOver(Part))
    BY <2>1
  <2>3. disable_version \in BOOLEAN
    BY <2>1
  <2>4. at \in 1 .. Len(services) + 1 /\ kind \in 1 .. 3 /\ kind = 1
    BY <1>2, <2>1
  <2>5. services \in ServiceLists
    BY <1>2
  <2>6. QED
    BY <2>2, <2>3, <2>4, <2>5 DEF Shape
<1>5. OpenedSoFar
  BY <1>1 DEF Start, OpenedSoFar
<1>6. QED
  BY <1>3, <1>4, <1>5 DEF Inv

(* Opening a file.                                                         *)
LEMMA GenerateFileInv ==
  ASSUME NEW Part, FilesOver(Part), Inv(Part), GenerateFile
  PROVE  Inv(Part)'
<1>1. /\ UNCHANGED <<outerClass, services, disable_version, outcome>>
      /\ outcome = "running" /\ at <= Len(services)
      /\ \/ kind < 3 /\ kind' = kind + 1 /\ at' = at
         \/ kind >= 3 /\ kind' = 1 /\ at' = at + 1
  <2>1. Len(Kinds) = 3 /\ kind \in 1 .. 3
    BY DEF Kinds, Inv, Shape
  <2>2. QED
    BY <2>1 DEF GenerateFile
<1>2. PICK f \in FileOver(Part) :
        /\ opened' = Append(opened, f)
        /\ IsFileOf(f, ServiceJavaPackage, services[at], kind)
  BY FileGenerated
<1>3. /\ services \in ServiceLists /\ Len(services) \in Nat
      /\ at \in 1 .. Len(services) /\ kind \in 1 .. 3
      /\ DOMAIN services = 1 .. Len(services)
      /\ opened \in Seq(FileOver(Part))
      /\ Len(opened) = 3 * (at - 1) + (kind - 1) /\ Len(opened) \in Nat
  BY <1>1, ListLength, LenProperties DEF Inv, Shape, OpenedSoFar
<1>4. /\ opened' \in Seq(FileOver(Part)) /\ Len(opened') = Len(opened) + 1
      /\ \A j \in 1 .. Len(opened) : opened'[j] = opened[j]
      /\ opened'[Len(opened) + 1] = f
      /\ DOMAIN opened' = 1 .. Len(opened) + 1 /\ DOMAIN opened = 1 .. Len(opened)
  BY <1>2, <1>3, AppendProperties, LenProperties
<1>5. ServiceJavaPackage' = ServiceJavaPackage
  BY <1>1 DEF ServiceJavaPackage, Dots
<1>6. ASSUME NEW j \in DOMAIN opened'
      PROVE  \E a \in DOMAIN services, k \in 1 .. 3 :
               /\ j = 3 * (a - 1) + k
               /\ IsFileOf(opened'[j], ServiceJavaPackage, services[a], k)
  <2>1. CASE j = Len(opened) + 1
    <3>1. j = 3 * (at - 1) + kind
      BY <1>3, <2>1
    <3>2. QED
      BY <1>2, <1>3, <1>4, <2>1, <3>1
  <2>2. CASE j # Len(opened) + 1
    <3>1. j \in DOMAIN opened /\ opened'[j] = opened[j]
      BY <1>3, <1>4, <2>2
    <3>2. QED
      BY <3>1 DEF Inv, OpenedSoFar
  <2>3. QED
    BY <2>1, <2>2
<1>7. OpenedSoFar'
  <2>1. Len(opened') = 3 * (at' - 1) + (kind' - 1)
    BY <1>1, <1>3, <1>4
  <2>2. QED
    BY <1>1, <1>5, <1>6, <2>1 DEF OpenedSoFar
<1>8. Shape(Part)'
  <2>1. at' \in 1 .. Len(services) + 1 /\ kind' \in 1 .. 3
        /\ (at' > Len(services) => kind' = 1)
    BY <1>1, <1>3
  <2>2. QED
    BY <1>1, <1>4, <2>1 DEF Inv, Shape, FileOver
<1>9. InPackage' /\ Outcomes'
  BY <1>1 DEF Inv, InPackage, Outcomes
<1>10. QED
  BY <1>7, <1>8, <1>9 DEF Inv

(* The steps that open nothing.                                            *)
LEMMA NextInv ==
  ASSUME NEW Part, FilesOver(Part), Inv(Part), [Next]_vars
  PROVE  Inv(Part)'
<1>1. CASE GenerateFile
  BY <1>1, GenerateFileInv
<1>2. ASSUME UNCHANGED <<outerClass, services, at, kind, opened>>,
             disable_version' \in BOOLEAN, Outcomes'
      PROVE  Inv(Part)'
  <2>1. InPackage' /\ Shape(Part)'
    BY <1>2 DEF Inv, InPackage, Shape, FileOver
  <2>2. ServiceJavaPackage' = ServiceJavaPackage
    BY <1>2 DEF ServiceJavaPackage, Dots
  <2>3. OpenedSoFar'
    BY <1>2, <2>2 DEF Inv, OpenedSoFar
  <2>4. QED
    BY <1>2, <2>1, <2>3 DEF Inv
<1>3. CASE ParseOption
  <2>1. UNCHANGED <<outerClass, services, at, kind, opened, outcome>>
    BY <1>3 DEF ParseOption
  <2>2. disable_version' \in BOOLEAN
    BY <1>3 DEF ParseOption, Inv, Shape
  <2>3. Outcomes'
    BY <2>1 DEF Inv, Outcomes, Accepts, Paths
  <2>4. QED
    BY <1>2, <2>1, <2>2, <2>3
<1>4. CASE Generate
  <2>1. UNCHANGED <<outerClass, services, disable_version, at, kind, opened>>
        /\ at > Len(services)
        /\ outcome' = IF Accepts THEN "written" ELSE "rejected"
    BY <1>4 DEF Generate
  <2>2. Accepts' = Accepts
    BY <2>1 DEF Accepts, Paths
  <2>3. Outcomes'
    BY <2>1, <2>2 DEF Outcomes
  <2>4. QED
    BY <1>2, <2>1, <2>3 DEF Inv, Shape
<1>5. CASE UNCHANGED vars
  <2>1. Outcomes'
    BY <1>5 DEF vars, Inv, Outcomes, Accepts, Paths
  <2>2. QED
    BY <1>2, <1>5, <2>1 DEF vars, Inv, Shape
<1>6. QED
  BY <1>1, <1>3, <1>4, <1>5 DEF Next

(* All classes are there, and a path opened twice means a clash.           *)
LEMMA InvMeans ==
  ASSUME NEW Part, FilesOver(Part), Inv(Part)
  PROVE  EveryClassFound
<1>1. PICK package \in Packages : outerClass = ClassName(package)
  BY DEF Inv, InPackage
<1>2. ServiceJavaPackage = package /\ package \in Seq(Part)
  BY <1>1, PackageOfClass DEF FilesOver
<1>3. /\ services \in ServiceLists /\ Len(services) \in Nat
      /\ DOMAIN services = 1 .. Len(services)
      /\ \A a \in 1 .. Len(services) : services[a] \in Seq(Part)
      /\ opened \in Seq(FileOver(Part)) /\ DOMAIN opened = 1 .. Len(opened)
      /\ Len(opened) \in Nat /\ at \in 1 .. Len(services) + 1 /\ kind \in 1 .. 3
  BY ListLength, LenProperties DEF Inv, Shape
<1>4. \A j \in DOMAIN opened : \E a \in DOMAIN services, k \in 1 .. 3 :
        j = 3 * (a - 1) + k /\ IsFileOf(opened[j], package, services[a], k)
  BY <1>2 DEF Inv, OpenedSoFar
<1>5. ASSUME outcome = "written", NEW s \in Range(services),
             NEW class \in {s, s \o <<"Client">>, s \o <<"Server">>}
      PROVE  \E f \in Range(opened) :
               /\ f.text.class = class /\ f.text.interface = s
               /\ f.path = Location(f.text.package, class)
  <2>1. PICK a \in 1 .. Len(services) : s = services[a]
    BY <1>3 DEF Range
  <2>2. PICK k \in 1 .. 3 : class = Class(s, k)
    BY <1>5 DEF Class
  <2> DEFINE j == 3 * (a - 1) + k
  <2>3. j \in DOMAIN opened
    <3>1. at > Len(services) /\ (at > Len(services) => kind = 1)
          /\ Len(opened) = 3 * (at - 1) + (kind - 1)
      BY <1>5 DEF Inv, Outcomes, Shape, OpenedSoFar
    <3>2. Len(services) \in Nat /\ at \in 1 .. Len(services) + 1
      BY <1>3
    <3> DEFINE n == Len(services)
    <3> HIDE DEF n
    <3>3. n \in Nat /\ at = n + 1 /\ kind = 1
      BY <3>1, <3>2 DEF n
    <3>4. Len(opened) = 3 * n
      BY <3>1, <3>3
    <3>5. j \in 1 .. 3 * n
      BY <1>3, <3>3 DEF n
    <3>6. DOMAIN opened = 1 .. Len(opened)
      BY <1>3
    <3>7. QED
      BY <3>4, <3>5, <3>6
  <2>4. PICK b \in DOMAIN services, m \in 1 .. 3 :
          j = 3 * (b - 1) + m /\ IsFileOf(opened[j], package, services[b], m)
    BY <1>4, <2>3
  <2>5. b = a /\ m = k
    <3>1. a \in Nat /\ b \in Nat
      BY <1>3
    <3>2. 3 * (a - 1) + k = 3 * (b - 1) + m
      BY <2>4
    <3>3. QED
      BY <3>1, <3>2, WhoseFile
  <2>6. IsFileOf(opened[j], package, s, k) /\ opened[j] \in Range(opened)
    BY <2>1, <2>3, <2>4, <2>5 DEF Range
  <2>7. Path(package, s, k) = Location(package, Class(s, k))
    BY <1>2, PathIsLocation
  <2>8. QED
    BY <2>2, <2>6, <2>7 DEF IsFileOf
<1>6. ASSUME outcome = "rejected"
      PROVE  \E a, b \in Range(services) :
               a \in {b \o <<"Client">>, b \o <<"Server">>}
  <2>1. PICK i1, i2 \in DOMAIN opened :
          opened[i1].path = opened[i2].path /\ i1 # i2
    <3>1. ~IsInjective(Paths)
      BY <1>6 DEF Inv, Outcomes, Accepts
    <3>2. QED
      BY <3>1 DEF IsInjective, Paths
  <2>2. PICK a \in DOMAIN services, k \in 1 .. 3 :
          i1 = 3 * (a - 1) + k /\ IsFileOf(opened[i1], package, services[a], k)
    BY <1>4, <2>1
  <2>3. PICK b \in DOMAIN services, m \in 1 .. 3 :
          i2 = 3 * (b - 1) + m /\ IsFileOf(opened[i2], package, services[b], m)
    BY <1>4, <2>1
  <2>4. ~(services[a] = services[b] /\ k = m)
    <3>1. services[a] = services[b] => a = b
      BY <1>3, <2>2, <2>3 DEF FilesOver
    <3>2. QED
      BY <2>1, <2>2, <2>3, <3>1
  <2>5. services[a] \in Seq(Part) /\ services[b] \in Seq(Part)
    BY <1>3
  <2>6. Path(package, services[a], k) = Path(package, services[b], m)
    BY <2>1, <2>2, <2>3 DEF IsFileOf
  <2>7. Class(services[a], k) = Class(services[b], m)
    BY <1>2, <2>5, <2>6, PathsTellClasses
  <2>8. \/ services[a] \in {services[b] \o <<"Client">>, services[b] \o <<"Server">>}
        \/ services[b] \in {services[a] \o <<"Client">>, services[a] \o <<"Server">>}
    BY <2>4, <2>5, <2>7, SameNameClash
  <2>9. services[a] \in Range(services) /\ services[b] \in Range(services)
    BY DEF Range
  <2>10. QED
    BY <2>8, <2>9
<1>7. QED
  BY <1>5, <1>6 DEF EveryClassFound

(* For every .proto file, whatever its package, its services and the       *)
(* options: when protoc takes the files, javac finds each class where it   *)
(* looks for it; when it refuses them, one service is called like          *)
(* another's client or server (java_plugin.cpp:22 to :71).                 *)
THEOREM AlwaysEveryClassFound ==
  ASSUME NEW Part, FilesOver(Part)
  PROVE  Spec => []EveryClassFound
<1>1. Init => Inv(Part)
  BY InitInv
<1>2. Inv(Part) /\ [Next]_vars => Inv(Part)'
  BY NextInv
<1>3. Inv(Part) => EveryClassFound
  BY InvMeans
<1>4. QED
  BY <1>1, <1>2, <1>3, PTL DEF Spec
=============================================================================
