------------------------------ MODULE FileURLs ------------------------------
(***************************************************************************)
(* How the URL of a share, a directory or a file is made from another one:  *)
(* the parts of a URL (parsing_urls.go), the constructors of url_*.go and   *)
(* the shared access signatures of zc_sas_query_params.go, sas_service.go   *)
(* and zc_sas_account.go.  A program is given a URL, perhaps with a SAS that *)
(* somebody else has signed, and makes others of it.                        *)
(*                                                                         *)
(* A text is a sequence of tokens: << "/", "s", "/", "f" >> is the path    *)
(* "/s/f", << >> the empty string; a name is one token.  A query maps      *)
(* keys << letters, case >> to the values given to them.  A time.Time is   *)
(* << day, minutes, seconds, fraction >>; its text has as many of these as *)
(* the format has, and the number of them stands for the format.  << >> is *)
(* also the zero time.                                                     *)
(***************************************************************************)
EXTENDS Integers, Sequences, FiniteSets, SequencesExt

CONSTANTS
    Given,       \* the URLs the program is given, with what is meant by each
    Names,       \* names of shares, directories and files
    Snapshots,   \* texts passed to WithSnapshot
    Signable,    \* signature values to make a SAS of
    MaxBuilt     \* bound: URLs made one from the other

VARIABLES
    kind,        \* of the URL: "service", "share", "directory" or "file"
    url,         \* [Host, Path, Query] of the url.URL
    asked,       \* what the calls so far ask for: [names, snapshot, sas, others]
    built        \* URLs made

vars == << kind, url, asked, built >>

Account == "account"
\* The addresses, each as net.IP.String writes it, and what net.ParseIP takes.
Addresses == {"10.132.141.33", "10.132.141.34", "fe80::1"}
AddressTexts == Addresses \cup {"FE80:0::1"}
AddressOf(text) == IF text = "FE80:0::1" THEN "fe80::1" ELSE text

SASVersion == << "2018-03-28" >>
shareSnapshot == "sharesnapshot"

-----------------------------------------------------------------------------
(* Query parameters. *)

lower(name) == << name, "lower" >>

Get(query, key) == IF key \in DOMAIN query THEN query[key] ELSE << >>

\* The raw queries q and r with a "&" between them.
Join(q, r) == [k \in DOMAIN q \cup DOMAIN r |-> Get(q, k) \o Get(r, k)]

Without(query, keys) == [k \in DOMAIN query \ keys |-> query[k]]

\* Code that ranges over the map takes the keys in any order; of those that
\* are one in lower case it uses the first (Get) or the last (the SAS).
Orders(query) ==
    LET spelt(name) == {k \in DOMAIN query : k[1] = name}
        names == {k[1] : k \in DOMAIN query}
        several == {name \in names : Cardinality(spelt(name)) > 1}
    IN {[name \in names |-> IF name \in several THEN pick[name] ELSE CHOOSE k \in spelt(name) : TRUE] :
          pick \in {f \in [several -> DOMAIN query] : \A name \in several : f[name] \in spelt(name)}}

\* Mutant of appendToURLPath: a slash whatever the path ends with.
appendToURLPathBlindly(u, name) == [u EXCEPT !.Path = @ \o << "/", name >>]

appendToURLPath(u, name) ==
    [u EXCEPT !.Path =
        IF u.Path = << >> \/ Last(u.Path) # "/" THEN @ \o << "/", name >> ELSE Append(@, name)]

-----------------------------------------------------------------------------
(* Times, addresses and permissions of a SAS. *)

SASTimeFormats == << 3, 2, 1 >>

\* time.Parse takes a fraction of a second where the format has none.
Parses(text, format) == Len(text) = format \/ (format = 3 /\ Len(text) = 4)

parseSASTimeString(val) ==
    LET i == SelectInSeq(SASTimeFormats, LAMBDA format : Parses(val, format)) IN
    IF i = 0 THEN [time |-> << >>, format |-> 0]
    ELSE [time |-> [n \in 1..4 |-> IF n <= Len(val) THEN val[n] ELSE 0], format |-> SASTimeFormats[i]]

\* Mutant of formatSASTime: always the default format.
formatSASTimeByDefault(t, format) == SubSeq(t, 1, SASTimeFormats[1])

\* Format 0 is the empty string.
formatSASTime(t, format) == SubSeq(t, 1, IF format # 0 THEN format ELSE SASTimeFormats[1])

FormatTimeForSASSigning(t) == IF t = << >> THEN << >> ELSE formatSASTime(t, 0)

\* net.ParseIP gives nil for what is not an address; the spelling is lost.
ParseIP(text) == IF Len(text) = 1 /\ text[1] \in AddressTexts THEN << AddressOf(text[1]) >> ELSE << >>

IPRangeText(ipr) ==
    CASE ipr.Start = << >> -> << >>
      [] ipr.Start # << >> /\ ipr.End = << >> -> ipr.Start
      [] OTHER -> ipr.Start \o << "-" >> \o ipr.End

IPRangeOf(text) ==
    LET dash == SelectInSeq(text, LAMBDA t : t = "-") IN
    IF dash = 0 THEN [Start |-> ParseIP(text), End |-> << >>]
    ELSE [Start |-> ParseIP(SubSeq(text, 1, dash - 1)),
          End |-> ParseIP(SubSeq(text, dash + 1, Len(text)))]

\* A type of flags is its letters, in the order of its String method.
ShareSASPermissions == << "r", "c", "w", "d", "l" >>
FileSASPermissions == << "r", "c", "w", "d" >>
AccountSASPermissions == << "r", "w", "d", "l", "a", "c", "u", "p" >>
AccountSASServices == << "b", "q", "f" >>
AccountSASResourceTypes == << "s", "c", "o" >>

ParseError(flags, text) == ~ ToSet(text) \subseteq ToSet(flags)

\* Parse and then String, which has an if for each letter, at most eight of them.
InOrder(flags, text) ==
    LET letter(i) == IF i \in DOMAIN flags /\ flags[i] \in ToSet(text) THEN << flags[i] >> ELSE << >>
    IN letter(1) \o letter(2) \o letter(3) \o letter(4) \o letter(5) \o letter(6) \o letter(7) \o letter(8)

-----------------------------------------------------------------------------
(* SASQueryParameters: the fields kept as they are by parameter, and the rest. *)

TextParams ==
    {"sv", "ss", "srt", "spr", "si", "sr", "sp", "sig", "rscc", "rscd", "rsce", "rscl", "rsct"}
SASParams == TextParams \cup {"st", "se", "sip"}

newSASQueryParameters(values, seen) ==
    LET val(name) == IF name \in DOMAIN seen THEN values[seen[name]][1] ELSE << >> IN
    [text |-> [name \in TextParams |-> val(name)],
     st |-> parseSASTimeString(val("st")),
     se |-> parseSASTimeString(val("se")),
     ipRange |-> IPRangeOf(val("sip"))]

\* addToValues and Encode: what is empty is left out.
Encode(p) ==
    LET time(t) == IF t.time = << >> THEN << >> ELSE formatSASTime(t.time, t.format)
        value == [name \in SASParams |->
            CASE name = "st" -> time(p.st)
              [] name = "se" -> time(p.se)
              [] name = "sip" -> IPRangeText(p.ipRange)
              [] OTHER -> p.text[name]]
    IN [k \in {lower(name) : name \in {n \in SASParams : value[n] # << >>}} |-> << value[k[1]] >>]

NoSAS == newSASQueryParameters(<< >>, << >>)

-----------------------------------------------------------------------------
(* FileURLParts. *)

\* A host is << name >> or << name, port >>; the brackets of an address do not count.
isIPEndpointStyle(host) == host # << >> /\ host[1] \in AddressTexts

\* path[:i] and path[i+1:] for the first slash of path, or all of it and nothing.
CutAtSlash(path) ==
    LET i == SelectInSeq(path, LAMBDA t : t = "/") IN
    IF i = 0 THEN << path, << >> >> ELSE << SubSeq(path, 1, i - 1), SubSeq(path, i + 1, Len(path)) >>

\* Parsing, with the parameters taken out of the map as they are recognized.
PartsLeaving(u, seen, recognized) ==
    LET path == IF u.Path # << >> /\ u.Path[1] = "/" THEN Tail(u.Path) ELSE u.Path
        account == IF isIPEndpointStyle(u.Host) THEN CutAtSlash(path) ELSE << << >>, path >>
        share == CutAtSlash(account[2])
        query == Without(u.Query, recognized)
    IN [Host |-> u.Host, AccountName |-> account[1], ShareName |-> share[1],
        DirectoryOrFilePath |-> share[2],
        ShareSnapshot |-> IF shareSnapshot \in DOMAIN seen THEN u.Query[seen[shareSnapshot]][1] ELSE << >>,
        SAS |-> newSASQueryParameters(query, seen),
        UnparsedParams |-> Without(query, {k \in DOMAIN query : k[1] \in SASParams})]

\* Mutant of NewFileURLParts: the snapshot stays among the unparsed parameters.
NewFileURLPartsKeepingSnapshot(u, seen) == PartsLeaving(u, seen, {})

\* Only the lower-case spelling of sharesnapshot is removed.
NewFileURLParts(u, seen) == PartsLeaving(u, seen, {lower(shareSnapshot)})

URL(up) ==
    LET part(text) == IF text = << >> THEN << >> ELSE << "/" >> \o text IN
    [Host |-> up.Host,
     Path |-> (IF isIPEndpointStyle(up.Host) THEN part(up.AccountName) ELSE << >>)
                \o part(up.ShareName)
                \o (IF up.ShareName = << >> THEN << >> ELSE part(up.DirectoryOrFilePath)),
     Query |-> Join(Join(up.UnparsedParams,
                         IF up.ShareSnapshot = << >> THEN << >>
                         ELSE [k \in {lower(shareSnapshot)} |-> << up.ShareSnapshot >>]),
                    Encode(up.SAS))]

-----------------------------------------------------------------------------
(* Signing: the signature is the list of the strings that are joined and signed. *)

\* Every backslash is a slash, and one slash in front goes.
getCanonicalName(account, shareName, filePath) ==
    LET dfp == [i \in DOMAIN filePath |-> IF filePath[i] = "\\" THEN "/" ELSE filePath[i]] IN
    << "/file/", account, "/" >> \o shareName
      \o (IF dfp = << >> THEN << >> ELSE << "/" >> \o (IF dfp[1] = "/" THEN Tail(dfp) ELSE dfp))

Version(v) == IF v.Version = << >> THEN SASVersion ELSE v.Version

\* FileSASSignatureValues.NewSASQueryParameters, or << >> for an error.
FileSAS(v, shareName, filePath) ==
    LET flags == IF filePath = << >> THEN ShareSASPermissions ELSE FileSASPermissions
        sp == InOrder(flags, v.Permissions)
        stringToSign ==
            << sp, FormatTimeForSASSigning(v.StartTime), FormatTimeForSASSigning(v.ExpiryTime),
               getCanonicalName(Account, shareName, filePath), v.Identifier, IPRangeText(v.IPRange),
               v.Protocol, Version(v), v.CacheControl, v.ContentDisposition, v.ContentEncoding,
               v.ContentLanguage, v.ContentType >>
    IN IF ParseError(flags, v.Permissions) THEN << >>
       ELSE << [text |-> [name \in TextParams |->
                    CASE name = "sv" -> Version(v)
                      [] name = "spr" -> v.Protocol
                      [] name = "sp" -> sp
                      [] name = "sr" -> << IF filePath = << >> THEN "s" ELSE "f" >>
                      [] name = "si" -> v.Identifier
                      [] name = "rscc" -> v.CacheControl
                      [] name = "rscd" -> v.ContentDisposition
                      [] name = "rsce" -> v.ContentEncoding
                      [] name = "rscl" -> v.ContentLanguage
                      [] name = "rsct" -> v.ContentType
                      [] name = "sig" -> stringToSign
                      [] OTHER -> NoSAS.text[name]],
                st |-> [time |-> v.StartTime, format |-> 0],
                se |-> [time |-> v.ExpiryTime, format |-> 0],
                ipRange |-> v.IPRange] >>

\* AccountSASSignatureValues.NewSASQueryParameters, or << >> for an error.
AccountSAS(v) ==
    LET sp == InOrder(AccountSASPermissions, v.Permissions)
        stringToSign ==
            << << Account >>, sp, v.Services, v.ResourceTypes, FormatTimeForSASSigning(v.StartTime),
               FormatTimeForSASSigning(v.ExpiryTime), IPRangeText(v.IPRange), v.Protocol, Version(v),
               << >> >>
    IN IF \/ v.ExpiryTime = << >> \/ v.Permissions = << >>
          \/ v.ResourceTypes = << >> \/ v.Services = << >>
          \/ ParseError(AccountSASPermissions, v.Permissions)
       THEN << >>
       ELSE << [text |-> [name \in TextParams |->
                    CASE name = "sv" -> Version(v)
                      [] name = "spr" -> v.Protocol
                      [] name = "sp" -> sp
                      [] name = "ss" -> v.Services
                      [] name = "srt" -> v.ResourceTypes
                      [] name = "sig" -> stringToSign
                      [] OTHER -> NoSAS.text[name]],
                st |-> [time |-> v.StartTime, format |-> 0],
                se |-> [time |-> v.ExpiryTime, format |-> 0],
                ipRange |-> v.IPRange] >>

-----------------------------------------------------------------------------
(* The calls that make a URL of another. *)

Make(k, u, a) ==
    /\ built < MaxBuilt
    /\ kind' = k
    /\ url' = u
    /\ asked' = a
    /\ built' = built + 1

NamesToo(name) == [asked EXCEPT !.names = Append(@, name)]

NewShareURL(name) ==
    kind = "service" /\ Make("share", appendToURLPath(url, name), NamesToo(name))

NewRootDirectoryURL == kind = "share" /\ Make("directory", url, asked)

NewDirectoryURL(name) ==
    kind \in {"share", "directory"} /\ Make("directory", appendToURLPath(url, name), NamesToo(name))

NewFileURL(name) ==
    kind = "directory" /\ Make("file", appendToURLPath(url, name), NamesToo(name))

\* Of a ShareURL or a FileURL.
WithSnapshot(snapshot) ==
    /\ kind \in {"share", "file"}
    /\ \E seen \in Orders(url.Query) :
          Make(kind, URL([NewFileURLParts(url, seen) EXCEPT !.ShareSnapshot = snapshot]),
               [asked EXCEPT !.snapshot = snapshot])

\* A program signs v and sets the SAS of its URL's parts; an error ends it.
Attach(sas, v) ==
    IF sas = << >> THEN UNCHANGED vars
    ELSE \E seen \in Orders(url.Query) :
           Make(kind, URL([NewFileURLParts(url, seen) EXCEPT !.SAS = sas[1]]),
                [asked EXCEPT !.sas = << [permissions |-> ToSet(v.Permissions), start |-> v.StartTime,
                                          expiry |-> v.ExpiryTime, ip |-> v.IPRange,
                                          asWritten |-> TRUE] >>])

\* The first length tokens of a path: a slash before each name, and one after the last.
PathOf(names, length) == [i \in 1 .. length |-> IF i % 2 = 1 THEN "/" ELSE names[i \div 2]]

\* The ways to write the path of a file in its share.
Spellings(names) ==
    LET path == PathOf(names, 2 * Len(names))
        spelt(sep) == [i \in DOMAIN path |-> IF path[i] = "/" THEN sep ELSE path[i]]
    IN UNION {{spelt(sep), Tail(spelt(sep))} : sep \in {"/", "\\"}}

SignShare(v) ==
    kind # "service" /\ Attach(FileSAS(v, << Head(asked.names) >>, << >>), v)

SignFile(v) ==
    /\ kind = "file"
    /\ \E filePath \in Spellings(Tail(asked.names)) :
          Attach(FileSAS(v, << Head(asked.names) >>, filePath), v)

SignAccount(v) == Attach(AccountSAS(v), v)

Init ==
    /\ built = 0
    /\ \E g \in Given : kind = g.kind /\ url = g.url /\ asked = g.asked

Next ==
    \/ NewRootDirectoryURL
    \/ \E name \in Names : NewShareURL(name) \/ NewDirectoryURL(name) \/ NewFileURL(name)
    \/ \E snapshot \in Snapshots : WithSnapshot(snapshot)
    \/ \E v \in Signable : SignShare(v) \/ SignFile(v) \/ SignAccount(v)

Spec == Init /\ [][Next]_vars

-----------------------------------------------------------------------------
(* What the service makes of a URL. *)

\* The account comes first in the path if the host is an address.
RootNames(host) == IF isIPEndpointStyle(host) THEN << Account >> ELSE << >>

\* The path of the resource in the account; a slash at the end does not count.
ResourcePath(u) ==
    LET path == IF u.Path # << >> /\ Last(u.Path) = "/" THEN Front(u.Path) ELSE u.Path
    IN IF isIPEndpointStyle(u.Host) THEN SubSeq(path, 3, Len(path)) ELSE path

\* The places where a parameter is given, in whatever case.
Occurrences(query, name) ==
    {o \in (DOMAIN query) \X {1, 2} : o[1][1] = name /\ o[2] \in DOMAIN query[o[1]]}

Read(query, name) ==
    LET places == Occurrences(query, name) IN
    IF places = {} THEN << >> ELSE LET o == CHOOSE p \in places : TRUE IN query[o[1]][o[2]]

\* The strings that the service joins and signs, to compare with the signature.
SignedByService(u) ==
    LET q(name) == Read(u.Query, name)
        path == ResourcePath(u)
        canonical == << "/file/", Account >> \o (IF q("sr") = << "s" >> THEN SubSeq(path, 1, 2) ELSE path)
    IN IF q("ss") # << >>
       THEN << << Account >>, q("sp"), q("ss"), q("srt"), q("st"), q("se"), q("sip"),
               q("spr"), q("sv"), << >> >>
       ELSE << q("sp"), q("st"), q("se"), canonical, q("si"), q("sip"), q("spr"), q("sv"),
               q("rscc"), q("rscd"), q("rsce"), q("rscl"), q("rsct") >>

\* A time to the second.
Seconds(t) == IF t = << >> THEN << >> ELSE [n \in 1..3 |-> IF n <= Len(t) THEN t[n] ELSE 0]

-----------------------------------------------------------------------------
(* What is assumed of the names, the values and the URLs that a program starts from. *)

Text(s) == s \in Seq(ToSet(s))

\* The names fit the kind of URL, and none is a separator.
NamesMeant(k, names) ==
    /\ Text(names) /\ ToSet(names) \cap {"/", "\\"} = {}
    /\ \/ k = "service" /\ Len(names) = 0
       \/ k = "share" /\ Len(names) = 1
       \/ k = "directory" /\ Len(names) >= 1
       \/ k = "file" /\ Len(names) >= 2

PathMeant(u, names) ==
    LET all == RootNames(u.Host) \o names IN
    \E length \in {2 * Len(all), 2 * Len(all) + 1} : u.Path = PathOf(all, length)

\* A parameter is in the map because it has a value.
QueryMeant(u, others) ==
    /\ \A k \in DOMAIN u.Query : Text(u.Query[k]) /\ u.Query[k] # << >>
    /\ Without(u.Query, {k \in DOMAIN u.Query : k[1] \in SASParams \cup {shareSnapshot}}) = others

SnapshotMeant(u, snapshot) ==
    (\A k \in DOMAIN u.Query : k[1] = shareSnapshot => k = lower(shareSnapshot)) =>
        IF snapshot = << >> THEN lower(shareSnapshot) \notin DOMAIN u.Query
        ELSE lower(shareSnapshot) \in DOMAIN u.Query /\ u.Query[lower(shareSnapshot)] = << snapshot >>

\* The times and the ranges of addresses that the library reads.
SASTimeRead(t) == Text(t) /\ Len(t) <= 4
IPTexts ==
    {<< >>} \cup {<< a >> : a \in AddressTexts} \cup {<< a, "-", b >> : a, b \in AddressTexts}

\* Those that it writes: no fraction of a second, and one spelling of an address.
SASTimeText(t) == Text(t) /\ Len(t) <= SASTimeFormats[1]
IPRanges ==
    {[Start |-> << >>, End |-> << >>]}
      \cup {[Start |-> << a >>, End |-> << >>] : a \in Addresses}
      \cup {[Start |-> << a >>, End |-> << b >>] : a, b \in Addresses}

AsWritten(query) ==
    /\ SASTimeText(Read(query, "st")) /\ SASTimeText(Read(query, "se"))
    /\ \E range \in IPRanges : Read(query, "sip") = IPRangeText(range)

\* Each parameter of a SAS is there once, in a format that the library reads; it is for
\* the account, or for the URL's share, or for its file.  The signature is good if the
\* SAS came as the library writes it.
SASMeant(k, u, sas) ==
    LET q(name) == Read(u.Query, name)
        keys == {key \in DOMAIN u.Query : key[1] \in SASParams}
    IN IF sas = << >> THEN keys = {}
       ELSE /\ \A key \in keys : Len(u.Query[key]) = 1 /\ \A l \in keys : l[1] = key[1] => l = key
            /\ SASTimeRead(q("st")) /\ SASTimeRead(q("se")) /\ q("sip") \in IPTexts
            /\ q("ss") # << >> \/ (q("sr") = << "s" >> /\ k # "service") \/ k = "file"
            /\ sas[1].asWritten => AsWritten(u.Query) /\ q("sig") = SignedByService(u)
            /\ ToSet(q("sp")) = sas[1].permissions
            /\ Seconds(q("st")) = Seconds(sas[1].start)
            /\ Seconds(q("se")) = Seconds(sas[1].expiry)
            /\ IPRangeOf(q("sip")) = sas[1].ip

\* The URL u of kind k means what a says.
Meant(k, u, a) ==
    /\ DOMAIN u = {"Host", "Path", "Query"} /\ DOMAIN a = {"names", "snapshot", "sas", "others"}
    /\ NamesMeant(k, a.names)
    /\ PathMeant(u, a.names)
    /\ QueryMeant(u, a.others)
    /\ SnapshotMeant(u, a.snapshot)
    /\ SASMeant(k, u, a.sas)

\* Whatever the spelling, the SAS of a given URL has a good signature.
ASSUME GivenAssumption ==
    \A g \in Given :
        /\ Meant(g.kind, g.url, g.asked)
        /\ g.asked.sas # << >> =>
             /\ Read(g.url.Query, "sig") = SignedByService(g.url)
             /\ g.asked.sas[1].asWritten = AsWritten(g.url.Query)

ASSUME NamesAssumption == Names \cap {"/", "\\"} = {}

\* IPRange.String ignores an end without a start: that is not a range.
ASSUME SignableAssumption ==
    \A v \in Signable :
        /\ Text(v.StartTime) /\ Len(v.StartTime) \in {0, 4}
        /\ Text(v.ExpiryTime) /\ Len(v.ExpiryTime) \in {0, 4}
        /\ v.IPRange \in IPRanges

-----------------------------------------------------------------------------
(* Properties. *)

\* Through any sequence of constructors, snapshots and signatures a URL keeps
\* denoting the account, share, directories and file that were named, one slash
\* before each and perhaps one at the end (appendToURLPath, NewFileURLParts, URL),
\* and keeps the query parameters that are nobody's business here, with all their
\* values in order.
DenotesWhatWasAsked ==
    /\ LET names == RootNames(url.Host) \o asked.names IN
       \E length \in {2 * Len(names), 2 * Len(names) + 1} : url.Path = PathOf(names, length)
    /\ Without(url.Query, {k \in DOMAIN url.Query : k[1] \in SASParams \cup {shareSnapshot}}) = asked.others

\* A URL names the snapshot that was asked for last, once, or none at all, so
\* WithSnapshot replaces or removes the snapshot of the URL it is called on
\* (parsing_urls.go:99-103).  Only for URLs given with sharesnapshot in lower
\* case: line 102 leaves any other spelling where it is.
SnapshotAsAsked ==
    LET places == Occurrences(url.Query, shareSnapshot) IN
    (\A o \in places : o[1] = lower(shareSnapshot))
      => {url.Query[o[1]][o[2]] : o \in places}
            = (IF asked.snapshot = << >> THEN {} ELSE {asked.snapshot})
         /\ Cardinality(places) <= 1

\* The SAS of a URL, made here or by somebody else, is carried by every call.  What it
\* grants is what was asked for, to the second and to the address; and the service
\* computes the same signature from the URL it gets as the one in it (so the text of
\* every signed parameter is still what was signed, a time in the format it came in),
\* provided that the SAS came without fractions of a second and with its addresses
\* spelled as net.IP.String does.  Any other the library rewrites under the signature it
\* came with, as TestFileURLPartsStSe (zt_parsing_url_test.go:184, 208) shows.
SASIntact ==
    LET q(name) == Read(url.Query, name) IN
    IF asked.sas = << >> THEN \A name \in SASParams : Occurrences(url.Query, name) = {}
    ELSE /\ \A name \in SASParams : Cardinality(Occurrences(url.Query, name)) <= 1
         /\ asked.sas[1].asWritten => q("sig") = SignedByService(url)
         /\ ToSet(q("sp")) = asked.sas[1].permissions
         /\ Seconds(q("st")) = Seconds(asked.sas[1].start)
         /\ Seconds(q("se")) = Seconds(asked.sas[1].expiry)
         /\ IPRangeOf(q("sip")) = asked.sas[1].ip
=============================================================================
