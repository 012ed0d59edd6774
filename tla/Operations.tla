----------------------------- MODULE Operations -----------------------------
(***************************************************************************)
(* The operations of the generated clients (azfile/zz_generated_file.go,    *)
(* _share.go, _directory.go and _service.go).  Each is a method, a preparer *)
(* and a responder of one shape, so each is one record of what differs:     *)
(*   name                  the operation of the service                     *)
(*   verb, restype, comp   the method and the query parameters it sets      *)
(*   marks                 headers of its own that it always sets, with     *)
(*                         their value where it is a constant               *)
(*   sends                 what it makes of its arguments (module Settings) *)
(*   ok                    the status codes validateResponse is given       *)
(*   reply                 what its responder does with a body: "discard"   *)
(*                         and close, parse as "xml" and close, or "open"   *)
(*   gets                  what its response gives back                     *)
(* The optional timeout is nil in every call the library makes.             *)
(***************************************************************************)

fileAbortCopy ==
    [name |-> "fileAbortCopy", verb |-> "PUT", restype |-> "", comp |-> "copy", marks |-> {"x-ms-copy-action"},
     sends |-> {}, ok |-> {200, 204}, reply |-> "discard", gets |-> {}]

fileCreate ==
    [name |-> "fileCreate", verb |-> "PUT", restype |-> "", comp |-> "", marks |-> {"x-ms-type", "x-ms-content-length"},
     sends |-> {"length", "headers", "metadata"}, ok |-> {200, 201}, reply |-> "discard", gets |-> {}]

fileDelete ==
    [name |-> "fileDelete", verb |-> "DELETE", restype |-> "", comp |-> "", marks |-> {},
     sends |-> {}, ok |-> {200, 202}, reply |-> "discard", gets |-> {}]

fileDownload ==
    [name |-> "fileDownload", verb |-> "GET", restype |-> "", comp |-> "", marks |-> {},
     sends |-> {"downloadRange"}, ok |-> {200, 206}, reply |-> "open", gets |-> {"metadata"}]

fileGetProperties ==
    [name |-> "fileGetProperties", verb |-> "HEAD", restype |-> "", comp |-> "", marks |-> {},
     sends |-> {}, ok |-> {200}, reply |-> "discard", gets |-> {"length", "headers", "metadata"}]

fileGetRangeList ==
    [name |-> "fileGetRangeList", verb |-> "GET", restype |-> "", comp |-> "rangelist", marks |-> {},
     sends |-> {"range"}, ok |-> {200}, reply |-> "xml", gets |-> {}]

\* SetHTTPHeaders sends the headers and no length; Resize a length and no headers.
fileSetHTTPHeaders ==
    [name |-> "fileSetHTTPHeaders", verb |-> "PUT", restype |-> "", comp |-> "properties", marks |-> {},
     sends |-> {"headers"}, ok |-> {200}, reply |-> "discard", gets |-> {}]
fileResize == [fileSetHTTPHeaders EXCEPT !.sends = {"length"}]

fileSetMetadata ==
    [name |-> "fileSetMetadata", verb |-> "PUT", restype |-> "", comp |-> "metadata", marks |-> {},
     sends |-> {"metadata"}, ok |-> {200, 202}, reply |-> "discard", gets |-> {}]

fileStartCopy ==
    [name |-> "fileStartCopy", verb |-> "PUT", restype |-> "", comp |-> "", marks |-> {"x-ms-copy-source"},
     sends |-> {"metadata"}, ok |-> {200, 202}, reply |-> "discard", gets |-> {}]

fileUploadRange ==
    [name |-> "fileUploadRange", verb |-> "PUT", restype |-> "", comp |-> "range",
     marks |-> {"x-ms-range", "x-ms-write: update", "Content-Length"},
     sends |-> {"writtenRange"}, ok |-> {200, 201}, reply |-> "discard", gets |-> {}]

\* Mutant of fileClearRange: it asks for an update.
fileClearRangeUpdates ==
    [fileUploadRange EXCEPT !.name = "fileClearRange"]

\* ClearRange is the client's UploadRange without a body.
fileClearRange ==
    [fileUploadRange EXCEPT !.name = "fileClearRange",
                            !.marks = {"x-ms-range", "x-ms-write: clear", "Content-Length: 0"}]

-----------------------------------------------------------------------------
shareCreate ==
    [name |-> "shareCreate", verb |-> "PUT", restype |-> "share", comp |-> "", marks |-> {},
     sends |-> {"metadata", "quota"}, ok |-> {200, 201}, reply |-> "discard", gets |-> {}]

\* Mutant of shareCreateSnapshot: a responder that parses the (empty) body.
shareCreateSnapshotParsed ==
    [name |-> "shareCreateSnapshot", verb |-> "PUT", restype |-> "share", comp |-> "snapshot", marks |-> {},
     sends |-> {"metadata"}, ok |-> {200, 201}, reply |-> "xml", gets |-> {}]

shareCreateSnapshot ==
    [name |-> "shareCreateSnapshot", verb |-> "PUT", restype |-> "share", comp |-> "snapshot", marks |-> {},
     sends |-> {"metadata"}, ok |-> {200, 201}, reply |-> "discard", gets |-> {}]

\* Mutant of shareDelete: a share that is gone counts as deleted.
shareDeleteAnyway ==
    [name |-> "shareDelete", verb |-> "DELETE", restype |-> "share", comp |-> "", marks |-> {},
     sends |-> {"deleteSnapshots"}, ok |-> {200, 202, 404}, reply |-> "discard", gets |-> {}]

shareDelete ==
    [name |-> "shareDelete", verb |-> "DELETE", restype |-> "share", comp |-> "", marks |-> {},
     sends |-> {"deleteSnapshots"}, ok |-> {200, 202}, reply |-> "discard", gets |-> {}]

shareGetAccessPolicy ==
    [name |-> "shareGetAccessPolicy", verb |-> "GET", restype |-> "share", comp |-> "acl", marks |-> {},
     sends |-> {}, ok |-> {200}, reply |-> "xml", gets |-> {"policies"}]

shareGetProperties ==
    [name |-> "shareGetProperties", verb |-> "GET", restype |-> "share", comp |-> "", marks |-> {},
     sends |-> {}, ok |-> {200}, reply |-> "discard", gets |-> {"metadata", "quota"}]

shareGetStatistics ==
    [name |-> "shareGetStatistics", verb |-> "GET", restype |-> "share", comp |-> "stats", marks |-> {},
     sends |-> {}, ok |-> {200}, reply |-> "xml", gets |-> {}]

shareSetAccessPolicy ==
    [name |-> "shareSetAccessPolicy", verb |-> "PUT", restype |-> "share", comp |-> "acl", marks |-> {},
     sends |-> {"policies"}, ok |-> {200}, reply |-> "discard", gets |-> {}]

shareSetMetadata ==
    [name |-> "shareSetMetadata", verb |-> "PUT", restype |-> "share", comp |-> "metadata", marks |-> {},
     sends |-> {"metadata"}, ok |-> {200}, reply |-> "discard", gets |-> {}]

shareSetQuota ==
    [name |-> "shareSetQuota", verb |-> "PUT", restype |-> "share", comp |-> "properties", marks |-> {},
     sends |-> {"quota"}, ok |-> {200}, reply |-> "discard", gets |-> {}]

-----------------------------------------------------------------------------
directoryCreate ==
    [name |-> "directoryCreate", verb |-> "PUT", restype |-> "directory", comp |-> "", marks |-> {},
     sends |-> {"metadata"}, ok |-> {200, 201}, reply |-> "discard", gets |-> {}]

directoryDelete ==
    [name |-> "directoryDelete", verb |-> "DELETE", restype |-> "directory", comp |-> "", marks |-> {},
     sends |-> {}, ok |-> {200, 202}, reply |-> "discard", gets |-> {}]

directoryGetProperties ==
    [name |-> "directoryGetProperties", verb |-> "GET", restype |-> "directory", comp |-> "", marks |-> {},
     sends |-> {}, ok |-> {200}, reply |-> "discard", gets |-> {"metadata"}]

directoryListFilesAndDirectoriesSegment ==
    [name |-> "directoryListFilesAndDirectoriesSegment", verb |-> "GET", restype |-> "directory", comp |-> "list", marks |-> {},
     sends |-> {"maxresults"}, ok |-> {200}, reply |-> "xml", gets |-> {}]

directorySetMetadata ==
    [name |-> "directorySetMetadata", verb |-> "PUT", restype |-> "directory", comp |-> "metadata", marks |-> {},
     sends |-> {"metadata"}, ok |-> {200, 202}, reply |-> "discard", gets |-> {}]

-----------------------------------------------------------------------------
serviceGetProperties ==
    [name |-> "serviceGetProperties", verb |-> "GET", restype |-> "service", comp |-> "properties", marks |-> {},
     sends |-> {}, ok |-> {200}, reply |-> "xml", gets |-> {"properties"}]

serviceListSharesSegment ==
    [name |-> "serviceListSharesSegment", verb |-> "GET", restype |-> "", comp |-> "list", marks |-> {},
     sends |-> {"maxresults"}, ok |-> {200}, reply |-> "xml", gets |-> {}]

serviceSetProperties ==
    [name |-> "serviceSetProperties", verb |-> "PUT", restype |-> "service", comp |-> "properties", marks |-> {},
     sends |-> {"properties"}, ok |-> {200, 202}, reply |-> "discard", gets |-> {}]

-----------------------------------------------------------------------------
\* The operations of each type of URL.
FileMethods ==
    {fileAbortCopy, fileCreate, fileDelete, fileDownload, fileGetProperties, fileGetRangeList,
     fileSetHTTPHeaders, fileResize, fileSetMetadata, fileStartCopy, fileUploadRange,
     fileClearRange}
ShareMethods ==
    {shareCreate, shareCreateSnapshot, shareDelete, shareGetAccessPolicy, shareGetProperties,
     shareGetStatistics, shareSetAccessPolicy, shareSetMetadata, shareSetQuota}
DirectoryMethods ==
    {directoryCreate, directoryDelete, directoryGetProperties,
     directoryListFilesAndDirectoriesSegment, directorySetMetadata}
ServiceMethods == {serviceGetProperties, serviceListSharesSegment, serviceSetProperties}

Methods ==
    [file |-> FileMethods, share |-> ShareMethods, directory |-> DirectoryMethods,
     service |-> ServiceMethods]

Operations == UNION {Methods[k] : k \in DOMAIN Methods}
=============================================================================
