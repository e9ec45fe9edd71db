--------------------------- MODULE ObjectStorage ---------------------------
(***************************************************************************)
(* The two adapters of object storage (platform/minio, platform/webdav),   *)
(* chosen by STORAGE_DRIVER.  A path is what a caller passes; both         *)
(* adapters have Upload return a locator, which is kept in a row, and      *)
(* which Download resolves.  Pure operators over the set of objects        *)
(* stored, each named by its absolute place.                               *)
(***************************************************************************)
CONSTANTS Driver, RootFolder

ASSUME DriverAssumption == Driver \in {"minio", "nextcloud"}

(* objectURL: WebDAV puts every path under the root folder *)
ObjectURL(path) == IF Driver = "nextcloud" THEN <<RootFolder, path>> ELSE path

(* what Upload returns: from WebDAV with the root folder *)
Location(path) == IF Driver = "nextcloud" THEN <<RootFolder, path>> ELSE path

Upload(objects, path) == objects \cup {ObjectURL(path)}

(* Delete of an absent object succeeds on MinIO and is a 404 on WebDAV *)
CanDelete(objects, path) == ObjectURL(path) \in objects \/ Driver = "minio"
Delete(objects, path) == objects \ {ObjectURL(path)}

(* Download of a locator: the place itself *)
Stored(objects, location) == location \in objects
=============================================================================
