------------------------------ MODULE ChunkPlan ------------------------------
(***************************************************************************)
(* How uploadChunked cuts a file (client.go: getChunkSize, min64 and the   *)
(* loop of uploadChunked), and the limits of UploadFile (upload.go).       *)
(* Sizes are in bytes; the program's are int64, far above all of these.    *)
(***************************************************************************)
EXTENDS Integers

MB == 1024 * 1024

chunkEnableFileSize == MB
MaxUploadSize == 2000 * 1000 * 1000

(* Empty and small files go through uploadSmall instead. *)
ChunkedSizes ==
  {size \in Nat : chunkEnableFileSize <= size /\ size <= MaxUploadSize}

getChunkSize(size) ==
  IF size \div (6 * MB) > 16 THEN 16 * MB
  ELSE IF size \div (4 * MB) > 4 THEN 4 * MB
  ELSE MB

totalChunks(size) == (size + getChunkSize(size) - 1) \div getChunkSize(size)

chunkOffset(size, index) == index * getChunkSize(size)

min64(a, b) == IF a < b THEN a ELSE b

chunkLength(size, index) ==
  min64(getChunkSize(size), size - chunkOffset(size, index))

=============================================================================
