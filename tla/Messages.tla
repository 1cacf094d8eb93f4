------------------------------- MODULE Messages -------------------------------
(***************************************************************************)
(* The Write and Update methods of the records on the wire, as field      *)
(* layouts over Wire, with the Size() each class declares.  Requests are  *)
(* written by the client behind the NaRPC header [int size][long ticket], *)
(* whose size is the request's Size(); responses are decoded by Update.  *)
(***************************************************************************)
EXTENDS Wire, TLC

kDirectoryDepth == 16
kNarpcHeader == 12

(* RpcCommand and RequestType (namenode_request.h): one value for both.   *)
RpcCommand == [create |-> 1, lookup |-> 2, setfile |-> 3, remove |-> 4,
               getblock |-> 6, ioctl |-> 13]

-----------------------------------------------------------------------------
(* Requests.                                                               *)
NamenodeRequestWrite == <<F("cmd", 2), F("type", 2)>>
NamenodeRequestSize == 2 * 2

CompField(i) == "comp" \o ToString(i)

FilenameWrite ==
  <<F("length", 4)>> \o [i \in 1 .. kDirectoryDepth |-> F(CompField(i), 4)]
FilenameSize == 4 + 16 * 4

CreaterequestWrite ==
  NamenodeRequestWrite \o FilenameWrite
    \o <<F("ftype", 4), F("storage_class", 4), F("location_class", 4),
         F("enumerable", 4)>>
CreaterequestSizeMissingField == NamenodeRequestSize + FilenameSize + 3 * 4
CreaterequestSize == NamenodeRequestSize + FilenameSize + 4 * 4

RemoveRequestWrite == NamenodeRequestWrite \o FilenameWrite \o <<F("recursive", 4)>>
RemoveRequestSize == NamenodeRequestSize + FilenameSize + 4

IoctlRequestWrite == NamenodeRequestWrite \o <<F("op", 1)>> \o FilenameWrite
IoctlRequestSize == NamenodeRequestSize + 1 + FilenameSize

GetblockRequestWrite ==
  NamenodeRequestWrite
    \o <<F("fd", 8), F("token", 8), F("position", 8), F("capacity", 8)>>
GetblockRequestSize == NamenodeRequestSize + 8 * 4

(* LookupRequest::Write puts a literal int 0 after the Filename.  Its    *)
(* header is not in the repository; Size() is taken to count what Write   *)
(* puts.                                                                  *)
LookupRequestWrite == NamenodeRequestWrite \o FilenameWrite \o <<F("reserved", 4)>>
LookupRequestSize == NamenodeRequestSize + FilenameSize + 4

(* FileInfo::Write is not in the repository: its fields in the order of *)
(* the members and the widths Size() counts (file_info.h).              *)
FileInfoLayout ==
  <<F("fd", 8), F("capacity", 8), F("node_type", 4), F("dir_offset", 8),
    F("token", 8), F("mtime", 8)>>
FileInfoSize == 8 * 2 + 4 + 8 * 3

(* SetfileRequest::Write: the FileInfo, then close_ as an int 0 or 1.    *)
SetfileRequestWrite == NamenodeRequestWrite \o FileInfoLayout \o <<F("close", 4)>>
SetfileRequestSize == NamenodeRequestSize + FileInfoSize + 4

RequestKinds == {"create", "lookup", "setfile", "remove", "ioctl", "getblock"}
PathKinds == {"create", "lookup", "remove", "ioctl"}

RequestLayout(k) ==
  CASE k = "create" -> CreaterequestWrite
    [] k = "lookup" -> LookupRequestWrite
    [] k = "setfile" -> SetfileRequestWrite
    [] k = "remove" -> RemoveRequestWrite
    [] k = "ioctl"  -> IoctlRequestWrite
    [] k = "getblock" -> GetblockRequestWrite

RequestSize(k) ==
  CASE k = "create" -> CreaterequestSize
    [] k = "lookup" -> LookupRequestSize
    [] k = "setfile" -> SetfileRequestSize
    [] k = "remove" -> RemoveRequestSize
    [] k = "ioctl"  -> IoctlRequestSize
    [] k = "getblock" -> GetblockRequestSize

(* RpcClient::AddNaRPCHeader, then request.Write, as IssueRequest does    *)
(* on its buffer before sending it.                                       *)
AddNaRPCHeader(b, size, ticket) == PutField(PutField(b, size, 4), ticket, 8)

EncodeRequest(b, k, obj, ticket) ==
  Flip(WriteLayout(AddNaRPCHeader(Clear(b), RequestSize(k), ticket), obj,
                   RequestLayout(k)))

-----------------------------------------------------------------------------
(* Responses and other records: Write and Update share one layout.       *)
NamenodeResponseLayout == <<F("rtype", 2), F("error", 2)>>
DatanodeInfoLayout ==
  <<F("storage_type", 4), F("storage_class", 4), F("location_class", 4),
    F("ip", Raw4), F("port", 4)>>
BlockInfoLayout ==
  DatanodeInfoLayout \o <<F("lba", 8), F("addr", 8), F("blength", 4), F("lkey", 4)>>
GetblockResponseLayout ==
  NamenodeResponseLayout \o BlockInfoLayout \o <<F("error", 2)>>
(* A layout whose field names carry a prefix, for a record that writes   *)
(* two members of one class.                                              *)
Prefixed(pre, layout) == [i \in DOMAIN layout |-> F(pre \o layout[i].f, layout[i].w)]

(* CreateResponse::Write/Update: the file's and the parent's FileInfo,   *)
(* then the file's and the parent's BlockInfo.                           *)
CreateResponseLayout ==
  NamenodeResponseLayout \o Prefixed("file_", FileInfoLayout)
    \o Prefixed("parent_", FileInfoLayout) \o Prefixed("fblock_", BlockInfoLayout)
    \o Prefixed("pblock_", BlockInfoLayout)

(* NarpcWriteRequest::Write/Update: the storage request's type, key,      *)
(* address, and length twice (Update keeps the second).                   *)
NarpcStorageRequestLayout == <<F("type", 4)>>
NarpcWriteRequestLayout ==
  NarpcStorageRequestLayout
    \o <<F("key", 4), F("address", 8), F("length", 4), F("length", 4)>>
NarpcStorageResponseLayout == <<F("error", 4), F("type", 4)>>
NarpcWriteResponseLayout == NarpcStorageResponseLayout \o <<F("ret", 4)>>
ReflexHeaderLayout ==
  <<F("magic", 2), F("type", 2), F("ticket", 8), F("lba", 8), F("count", 4)>>
ReflexHeaderSize == 2 + 2 + 8 + 8 + 4

RecordKinds == {"getblockRes", "createRes", "writeReq", "writeRes",
                "reflexHeader", "filename"}

RecordLayout(k) ==
  CASE k = "getblockRes"  -> GetblockResponseLayout
    [] k = "createRes"    -> CreateResponseLayout
    [] k = "writeReq"     -> NarpcWriteRequestLayout
    [] k = "writeRes"     -> NarpcWriteResponseLayout
    [] k = "reflexHeader" -> ReflexHeaderLayout
    [] k = "filename"     -> FilenameWrite

(* ReflexHeader::Write and ::Update switch the buffer to little-endian.   *)
RecordOrder(k) == IF k = "reflexHeader" THEN "little" ELSE "big"

EncodeRecord(b, k, obj) ==
  Flip(WriteLayout(SetOrder(Clear(b), RecordOrder(k)), obj, RecordLayout(k)))

DecodeRecord(b, k, obj0) ==
  UpdateLayout(SetOrder(b, RecordOrder(k)), obj0, RecordLayout(k)).obj

(* DirectoryRecord::Write and ::Update: [int valid][int length][bytes].   *)
DirectoryRecordWrite(b, valid, name) ==
  LET b1 == PutField(PutField(b, valid, 4), Len(name), 4)
  IN  [b1 EXCEPT !.bytes = WriteAt(@, b1.position, name),
                 !.position = @ + Len(name)]

DirectoryRecordUpdate(b) ==
  LET v == GetField(b, 4)
      n == GetField(v.buf, 4)
  IN  [valid |-> v.val,
       name  |-> SubSeq(n.buf.bytes, n.buf.position + 1, n.buf.position + n.val)]
=============================================================================
